---- MODULE Spec2Model ----
(***************************************************************************)
(* Verification model of the spanner_graphs core: the graph entity shape   *)
(* checks (graph_entities.py), the SchemaManager (schema_manager.py), the   *)
(* conversion engine get_nodes_edges (conversion.py) and the validation of  *)
(* node expansion requests (graph_server.py).                               *)
(***************************************************************************)
EXTENDS Integers, Sequences, FiniteSets, TLC

VARIABLES
    \* ---- get_nodes_edges (conversion.py) ----
    data,              \* argument: column name -> list of row values
    fields,            \* argument: list of SpannerFieldInfo (name, typename)
    schema_json,       \* argument: schema document or None
    nodes,             \* local: List[Node]
    edges,             \* local: List[Edge]
    node_identifiers,  \* local: set of node identifiers seen
    edge_identifiers,  \* local: set of edge identifiers seen
    fi,                \* position of `for field in fields`
    vi,                \* position of `for value in column_data`
    conv_pc,           \* "loop" | "done" | "raised"
    \* ---- SchemaManager (schema_manager.py) ----
    schema_manager,    \* the SchemaManager object (its attributes)
    sm_pc,             \* "new" | "ready"
    sm_call,           \* last get_key_property_names call: argument and outcome
    \* ---- validate_node_expansion_request (graph_server.py) ----
    val_data,          \* argument: the request dict
    val_pc,            \* "called" | "returned" | "raised"
    val_out,           \* the returned (validated_properties, direction) or the ValueError
    \* ---- Query Server (graph_server.py, exec_env.py) ----
    database_instances,\* exec_env.database_instances: key -> adapter
    cloud_made,        \* number of CloudSpannerDatabase objects constructed so far
    backend_log,       \* the adapter calls made for the request being handled
    http_request,      \* the request being handled: method, path, body
    http_reply,        \* what the handler sent back for it
    srv_pc,            \* "idle" | "received" | "replied"
    srv_n,             \* number of requests received so far
    \* ---- database adapters (cloud_database.py, database.py) ----
    db,                \* the adapter object (its attributes)
    db_call,           \* execute_query call: arguments and the behaviour of the backend
    db_out,            \* its outcome: the SpannerQueryResult returned or the exception raised
    \* ---- GraphServer life cycle (graph_server.py, socketserver) ----
    _server,           \* GraphServer._server: None (0) or the number of a listener
    listeners,         \* the ThreadedTCPServer objects constructed so far
    server_threads,    \* the threads started by GraphServer.init: position and listener
    stop_call,         \* the caller of init / stop_server: position in stop_server
    connections,       \* the requests of clients: "pending" | "handling" | "answered"
    \* ---- calls running at the same time on several threads ----
    gdi_calls,         \* get_database_instance calls in progress: position and locals
    xq_calls           \* CloudSpannerDatabase.execute_query calls in progress

convVars == <<data, fields, schema_json, nodes, edges, node_identifiers,
              edge_identifiers, fi, vi, conv_pc>>
smVars == <<schema_manager, sm_pc, sm_call>>
valVars == <<val_data, val_pc, val_out>>
srvVars == <<database_instances, cloud_made, backend_log, http_request, http_reply, srv_pc,
             srv_n>>
dbVars == <<db, db_call, db_out>>
lifeVars == <<_server, listeners, server_threads, stop_call, connections>>
callVars == <<gdi_calls, xq_calls>>
extVars == <<srvVars, dbVars, lifeVars, callVars>>
vars == <<convVars, smVars, valVars, extVars>>

-----------------------------------------------------------------------------
(* JSON / Python values.  Every value carries its Python type in field t,   *)
(* so that isinstance checks are decided by the value, as in the code.      *)

Absent == [t |-> "absent"]
None == [t |-> "null"]
JStr(s) == [t |-> "str", s |-> s]
JInt(n) == [t |-> "int", n |-> n]
JFloat(f) == [t |-> "float", f |-> f]
JBool(b) == [t |-> "bool", b |-> b]
JList(items) == [t |-> "list", items |-> items]
\* a dict is its set of <<key, value>> pairs, keys unique
JDict(pairs) == [t |-> "dict", pairs |-> pairs]

isinstance(v, type) == v.t = type
Has(d, key) == \E p \in d.pairs : p[1] = key
Get(d, key) == (CHOOSE p \in d.pairs : p[1] = key)[2]
GetOr(d, key, default) == IF Has(d, key) THEN Get(d, key) ELSE default
Keys(d) == {p[1] : p \in d.pairs}
len(v) == IF v.t = "dict" THEN Cardinality(v.pairs) ELSE Len(v.items)

Range(seq) == {seq[i] : i \in DOMAIN seq}

-----------------------------------------------------------------------------
(* graph_entities.py: Node and Edge                                         *)

Node(identifier, labels, properties, intermediate) ==
    [t |-> "Node", identifier |-> identifier, labels |-> labels,
     key_property_names |-> JList(<<>>), properties |-> properties,
     intermediate |-> intermediate]

Edge(identifier, source, destination, labels, properties) ==
    [t |-> "Edge", identifier |-> identifier, source |-> source,
     destination |-> destination, labels |-> labels, properties |-> properties]

IntermediateNote ==
    JDict({<<"note", JStr("This node represents a referenced entity that wasn't returned in the query results.")>>})

make_intermediate_not_flagged(identifier) ==
    Node(identifier, JList(<<JStr("Intermediate")>>), IntermediateNote, FALSE)

make_intermediate(identifier) ==
    Node(identifier, JList(<<JStr("Intermediate")>>), IntermediateNote, TRUE)

Node_from_json(d) ==
    Node(Get(d, "identifier"), GetOr(d, "labels", JList(<<>>)),
         GetOr(d, "properties", JDict({})), FALSE)

Edge_from_json(d) ==
    Edge(Get(d, "identifier"), Get(d, "source_node_identifier"),
         Get(d, "destination_node_identifier"), GetOr(d, "labels", JList(<<>>)),
         GetOr(d, "properties", JDict({})))

IsStr(v) == isinstance(v, "str")

is_valid_node_json_no_label_check(node_data) ==
    /\ \A key \in {"identifier", "labels", "properties"} : Has(node_data, key)
    /\ isinstance(Get(node_data, "identifier"), "str")
    /\ isinstance(Get(node_data, "labels"), "list")
    /\ isinstance(Get(node_data, "properties"), "dict")

is_valid_node_json(node_data) ==
    /\ \A key \in {"identifier", "labels", "properties"} : Has(node_data, key)
    /\ isinstance(Get(node_data, "identifier"), "str")
    /\ isinstance(Get(node_data, "labels"), "list")
    /\ isinstance(Get(node_data, "properties"), "dict")
    /\ \A label \in Range(Get(node_data, "labels").items) : IsStr(label)

is_valid_edge_json(edge_data) ==
    /\ \A key \in {"identifier", "source_node_identifier",
                   "destination_node_identifier", "labels", "properties"} :
          Has(edge_data, key)
    /\ isinstance(Get(edge_data, "identifier"), "str")
    /\ isinstance(Get(edge_data, "source_node_identifier"), "str")
    /\ isinstance(Get(edge_data, "destination_node_identifier"), "str")
    /\ isinstance(Get(edge_data, "labels"), "list")
    /\ isinstance(Get(edge_data, "properties"), "dict")
    /\ \A label \in Range(Get(edge_data, "labels").items) : IsStr(label)

-----------------------------------------------------------------------------
(* schema_manager.py: SchemaManager                                         *)

\* Python's order on str, for the label names that occur in the model
StrRank(s) ==
    CASE s = "Account" -> 1
      [] s = "Human" -> 2
      [] s = "Intermediate" -> 3
      [] s = "Person" -> 4

RECURSIVE InsertSorted(_, _)
InsertSorted(x, seq) ==
    IF seq = <<>> THEN <<x>>
    ELSE IF StrRank(x.s) < StrRank(Head(seq).s) THEN <<x>> \o seq
    ELSE <<Head(seq)>> \o InsertSorted(x, Tail(seq))

RECURSIVE SortedItems(_)
SortedItems(seq) ==
    IF seq = <<>> THEN <<>> ELSE InsertSorted(Head(seq), SortedItems(Tail(seq)))

\* sorted(list of str)
sorted(list) == JList(SortedItems(list.items))

\* self.schema_dict.get('nodeTables', [])
NodeTables(schema_dict) == GetOr(schema_dict, "nodeTables", JList(<<>>)).items

_find_unique_node_labels(schema_dict) ==
    LET tables == NodeTables(schema_dict)
        single == {i \in DOMAIN tables :
                      len(GetOr(tables[i], "labelNames", JList(<<>>))) = 1}
        label(i) == GetOr(tables[i], "labelNames", JList(<<>>)).items[1]
    IN  {label(i).s : i \in {j \in single :
            Cardinality({k \in single : label(k) = label(j)}) = 1}}

RECURSIVE KeyPropertyNames(_, _)
KeyPropertyNames(keyColumns, propertyDefinitions) ==
    IF keyColumns = <<>> THEN <<>>
    ELSE LET keyColumn == Head(keyColumns)
             hits == {i \in DOMAIN propertyDefinitions :
                         GetOr(propertyDefinitions[i], "valueExpressionSql", JStr("")) = keyColumn}
             rest == KeyPropertyNames(Tail(keyColumns), propertyDefinitions)
         IN  IF hits = {} THEN rest
             ELSE LET first == CHOOSE i \in hits : \A j \in hits : i <= j
                  IN  <<GetOr(propertyDefinitions[first], "propertyDeclarationName", None)>>
                      \o rest

_build_node_mappings(schema_dict) ==
    LET tables == NodeTables(schema_dict)
        single == {i \in DOMAIN tables :
                      len(GetOr(tables[i], "labelNames", JList(<<>>))) = 1}
        label(i) == GetOr(tables[i], "labelNames", JList(<<>>)).items[1]
        \* a later table with the same label overwrites the earlier entry
        last == {i \in single : \A j \in single : label(j) = label(i) => j <= i}
    IN  JDict({<<label(i).s,
                 JList(KeyPropertyNames(
                     GetOr(tables[i], "keyColumns", JList(<<>>)).items,
                     GetOr(tables[i], "propertyDefinitions", JList(<<>>)).items))>> :
               i \in last})

RECURSIVE DynamicNodeLoop(_, _)
DynamicNodeLoop(tables, dynamic_node) ==
    IF tables = <<>> THEN dynamic_node
    ELSE DynamicNodeLoop(Tail(tables),
            GetOr(Head(tables), "dynamicLabelExpr", JStr("")) # JStr(""))

_determine_dynamic_node(schema_dict) ==
    DynamicNodeLoop(NodeTables(schema_dict), FALSE)

\* SchemaManager.__init__; `schema_json or {}`: None and the empty dict are falsy
SchemaManager(schema) ==
    LET schema_dict == IF schema = None \/ schema = JDict({}) THEN JDict({}) ELSE schema
    IN  [schema_dict |-> schema_dict,
         node_label_to_property_names |-> _build_node_mappings(schema_dict),
         unique_node_labels |-> _find_unique_node_labels(schema_dict),
         dynamic_node |-> _determine_dynamic_node(schema_dict)]

Returned(value) == [raised |-> "none", value |-> value]
Raised(exc) == [raised |-> exc]

\* the table's test of get_key_property_names without the sort: labels compared in order
TableMatchesInOrder(sm, node, node_table) ==
    LET label_names == GetOr(node_table, "labelNames", JList(<<>>))
        key_columns == GetOr(node_table, "keyColumns", JList(<<>>))
    IN  \/ sm.dynamic_node /\ Range(label_names.items) \subseteq Range(node.labels.items)
        \/ /\ len(label_names) = len(node.labels)
           /\ label_names = node.labels
           /\ \A i \in DOMAIN key_columns.items :
                 key_columns.items[i].s \in Keys(node.properties)

\* lines 80-86 with the key columns required of a dynamic-label match as well
TableMatchesWithKeys(sm, node, node_table) ==
    LET sorted_node_labels == sorted(node.labels)
        label_names == GetOr(node_table, "labelNames", JList(<<>>))
        key_columns == GetOr(node_table, "keyColumns", JList(<<>>))
    IN  /\ \/ sm.dynamic_node
              /\ Range(label_names.items) \subseteq Range(sorted_node_labels.items)
           \/ /\ len(label_names) = len(sorted_node_labels)
              /\ sorted(label_names) = sorted_node_labels
        /\ \A i \in DOMAIN key_columns.items :
              key_columns.items[i].s \in Keys(node.properties)

\* lines 80-86: whether the loop returns this table's key columns
TableMatches(sm, node, node_table) ==
    LET sorted_node_labels == sorted(node.labels)
        label_names == GetOr(node_table, "labelNames", JList(<<>>))
        key_columns == GetOr(node_table, "keyColumns", JList(<<>>))
    IN  \/ sm.dynamic_node
           /\ Range(label_names.items) \subseteq Range(sorted_node_labels.items)
        \/ /\ len(label_names) = len(sorted_node_labels)
           /\ sorted(label_names) = sorted_node_labels
           /\ \A i \in DOMAIN key_columns.items :
                 key_columns.items[i].s \in Keys(node.properties)

RECURSIVE KeyColumnsLoop(_, _, _)
KeyColumnsLoop(sm, node, tables) ==
    IF tables = <<>> THEN JList(<<>>)
    ELSE IF TableMatches(sm, node, Head(tables))
         THEN GetOr(Head(tables), "keyColumns", JList(<<>>))
         ELSE KeyColumnsLoop(sm, node, Tail(tables))

\* get_key_property_names without the early return on empty labels
get_key_property_names_no_label_guard(sm, node) ==
    IF ~isinstance(node, "Node") THEN Raised("TypeError")
    ELSE IF ~isinstance(node.properties, "dict") \/ len(node.properties) = 0
         THEN Returned(JList(<<>>))
    ELSE IF ~isinstance(node.labels, "list")
         THEN Returned(JList(<<>>))
    ELSE Returned(KeyColumnsLoop(sm, node, NodeTables(sm.schema_dict)))

get_key_property_names(sm, node) ==
    IF ~isinstance(node, "Node") THEN Raised("TypeError")
    ELSE IF ~isinstance(node.properties, "dict") \/ len(node.properties) = 0
         THEN Returned(JList(<<>>))
    ELSE IF ~isinstance(node.labels, "list") \/ len(node.labels) = 0
         THEN Returned(JList(<<>>))
    ELSE Returned(KeyColumnsLoop(sm, node, NodeTables(sm.schema_dict)))

-----------------------------------------------------------------------------
(* conversion.py: get_nodes_edges                                           *)

\* json.loads on the str values that occur in the model
JsonLoads(s) ==
    CASE s = "{\"kind\": \"node\", \"identifier\": \"c\", \"labels\": [\"Person\"], \"properties\": {\"id\": \"3\"}}" ->
            [ok |-> TRUE,
             value |-> JDict({<<"kind", JStr("node")>>, <<"identifier", JStr("c")>>,
                              <<"labels", JList(<<JStr("Person")>>)>>,
                              <<"properties", JDict({<<"id", JStr("3")>>})>>})]
      [] s = "[{\"kind\": \"node\", \"identifier\": \"d\", \"labels\": [], \"properties\": {}}]" ->
            [ok |-> TRUE,
             value |-> JList(<<JDict({<<"kind", JStr("node")>>, <<"identifier", JStr("d")>>,
                                      <<"labels", JList(<<>>)>>,
                                      <<"properties", JDict({})>>})>>)]
      [] s = "7" -> [ok |-> TRUE, value |-> JInt(7)]
      [] s = "{\"project\": \"p\", \"instance\": \"i\", \"database\": \"d\", \"graph\": \"g\"}" ->
            [ok |-> TRUE,
             value |-> JDict({<<"project", JStr("p")>>, <<"instance", JStr("i")>>, <<"database", JStr("d")>>, <<"graph", JStr("g")>>})]
      [] s = "{\"project\": \"p\", \"instance\": \"i\", \"database\": \"d\", \"graph\": \"g\", \"mock\": true}" ->
            [ok |-> TRUE,
             value |-> JDict({<<"project", JStr("p")>>, <<"instance", JStr("i")>>, <<"database", JStr("d")>>, <<"graph", JStr("g")>>, <<"mock", JBool(TRUE)>>})]
      [] s = "{\"project\": \"p\", \"instance\": \"i\", \"database\": \"d\", \"graph\": \"g\", \"mock\": false}" ->
            [ok |-> TRUE,
             value |-> JDict({<<"project", JStr("p")>>, <<"instance", JStr("i")>>, <<"database", JStr("d")>>, <<"graph", JStr("g")>>, <<"mock", JBool(FALSE)>>})]
      [] s = "{\"project\": \"p\", \"instance\": \"i\", \"database\": \"d\"}" ->
            [ok |-> TRUE,
             value |-> JDict({<<"project", JStr("p")>>, <<"instance", JStr("i")>>, <<"database", JStr("d")>>})]
      [] s = "{\"instance\": \"i\", \"database\": \"d\", \"graph\": \"g\"}" ->
            [ok |-> TRUE,
             value |-> JDict({<<"instance", JStr("i")>>, <<"database", JStr("d")>>, <<"graph", JStr("g")>>})]
      [] s = "{\"project\": null, \"instance\": \"i\", \"database\": \"d\", \"graph\": \"g\"}" ->
            [ok |-> TRUE,
             value |-> JDict({<<"project", None>>, <<"instance", JStr("i")>>, <<"database", JStr("d")>>, <<"graph", JStr("g")>>})]
      [] s = "{\"project\": \"a_b\", \"instance\": \"c\", \"database\": \"d\", \"graph\": \"g\", \"mock\": false}" ->
            [ok |-> TRUE,
             value |-> JDict({<<"project", JStr("a_b")>>, <<"instance", JStr("c")>>, <<"database", JStr("d")>>, <<"graph", JStr("g")>>, <<"mock", JBool(FALSE)>>})]
      [] s = "{\"project\": \"a\", \"instance\": \"b_c\", \"database\": \"d\", \"graph\": \"g\", \"mock\": false}" ->
            [ok |-> TRUE,
             value |-> JDict({<<"project", JStr("a")>>, <<"instance", JStr("b_c")>>, <<"database", JStr("d")>>, <<"graph", JStr("g")>>, <<"mock", JBool(FALSE)>>})]
      [] s = "{\"project\": \"p\", \"instance\": \"i\", \"graph\": \"g\", \"mock\": false}" ->
            [ok |-> TRUE,
             value |-> JDict({<<"project", JStr("p")>>, <<"instance", JStr("i")>>, <<"graph", JStr("g")>>, <<"mock", JBool(FALSE)>>})]
      [] s = "{\"project\": \"p\", \"instance\": \"i\", \"database\": \"d\", \"graph\": \"g\", \"node_labels\": [\"Person\"], \"uid\": \"u2\", \"direction\": \"INCOMING\"}" ->
            [ok |-> TRUE,
             value |-> JDict({<<"project", JStr("p")>>, <<"instance", JStr("i")>>, <<"database", JStr("d")>>, <<"graph", JStr("g")>>, <<"node_labels", JList(<<JStr("Person")>>)>>, <<"uid", JStr("u2")>>, <<"direction", JStr("INCOMING")>>})]
      [] s = "[\"p\", \"i\", \"d\"]" ->
            [ok |-> TRUE,
             value |-> JList(<<JStr("p"), JStr("i"), JStr("d")>>)]
      [] OTHER -> [ok |-> FALSE, value |-> None]    \* json.JSONDecodeError

\* lines 93-108: the items one column value contributes
items_to_process(value) ==
    IF isinstance(value, "list") THEN value.items
    ELSE IF isinstance(value, "ArrayValue") THEN value._array_value
    ELSE IF isinstance(value, "dict") THEN <<value>>
    ELSE IF isinstance(value, "str")
         THEN IF JsonLoads(value.s).ok THEN <<JsonLoads(value.s).value>> ELSE <<>>
    ELSE <<>>

Acc(ns, es, nids, eids) ==
    [nodes |-> ns, edges |-> es, node_identifiers |-> nids, edge_identifiers |-> eids]

\* lines 117-120 without the test on node_identifiers
keep_node_unchecked(acc, node, sm) ==
    [acc EXCEPT
        !.nodes = Append(@, [node EXCEPT !.key_property_names =
                                get_key_property_names(sm, node).value]),
        !.node_identifiers = @ \cup {node.identifier}]

\* lines 117-120 with a later node replacing the kept one
keep_node_last_wins(acc, node, sm) ==
    LET n == [node EXCEPT !.key_property_names = get_key_property_names(sm, node).value]
    IN  IF node.identifier \notin acc.node_identifiers
        THEN [acc EXCEPT !.nodes = Append(@, n),
                         !.node_identifiers = @ \cup {node.identifier}]
        ELSE [acc EXCEPT !.nodes = [i \in DOMAIN @ |->
                            IF @[i].identifier = node.identifier THEN n ELSE @[i]]]

\* lines 117-120 without the key property names asked of the Schema Manager
keep_node_without_keys(acc, node, sm) ==
    IF node.identifier \notin acc.node_identifiers
    THEN [acc EXCEPT !.nodes = Append(@, node),
                     !.node_identifiers = @ \cup {node.identifier}]
    ELSE acc

\* lines 117-120
keep_node(acc, node, sm) ==
    IF node.identifier \notin acc.node_identifiers
    THEN [acc EXCEPT
            !.nodes = Append(@, [node EXCEPT !.key_property_names =
                                    get_key_property_names(sm, node).value]),
            !.node_identifiers = @ \cup {node.identifier}]
    ELSE acc

\* lines 124-126
keep_edge(acc, edge) ==
    IF edge.identifier \notin acc.edge_identifiers
    THEN [acc EXCEPT !.edges = Append(@, edge),
                     !.edge_identifiers = @ \cup {edge.identifier}]
    ELSE acc

\* lines 112-126: one item of items_to_process
process_item(acc, item, sm) ==
    IF ~isinstance(item, "dict") \/ ~Has(item, "kind") THEN acc
    ELSE IF Get(item, "kind") = JStr("node") /\ is_valid_node_json(item)
         THEN keep_node(acc, Node_from_json(item), sm)
    ELSE IF Get(item, "kind") = JStr("edge") /\ is_valid_edge_json(item)
         THEN keep_edge(acc, Edge_from_json(item))
    ELSE acc

RECURSIVE process_items(_, _, _)
process_items(acc, items, sm) ==
    IF items = <<>> THEN acc
    ELSE process_items(process_item(acc, Head(items), sm), Tail(items), sm)

\* lines 92-126: one value of a column
process_value(acc, value, sm) == process_items(acc, items_to_process(value), sm)

\* line 88
is_graph_column(field) == field.typename \in {"JSON", "ARRAY"}

\* lines 130-135 with the tests run once, after the loop, on the last edge
missing_of_last_edge(es, nids) ==
    IF es = <<>> THEN {}
    ELSE {es[Len(es)].source, es[Len(es)].destination} \ nids

\* lines 130-135 without the test of edge.destination
missing_sources(es, nids) ==
    {es[i].source : i \in DOMAIN es} \ nids

\* lines 130-135
missing_node_identifiers(es, nids) ==
    ({es[i].source : i \in DOMAIN es} \cup {es[i].destination : i \in DOMAIN es}) \ nids

\* the orders in which `for identifier in missing_node_identifiers` may visit a set
Orders(S) ==
    {o \in [1..Cardinality(S) -> S] : \A i, j \in DOMAIN o : o[i] = o[j] => i = j}

-----------------------------------------------------------------------------
(* Schema documents and nodes handed to the SchemaManager                   *)

MaxTables == 2

PropertyDefinition(name, sql) ==
    JDict({<<"propertyDeclarationName", JStr(name)>>, <<"valueExpressionSql", JStr(sql)>>})

NodeTable(name, labelNames, keyColumns) ==
    JDict({<<"name", JStr(name)>>, <<"labelNames", JList(labelNames)>>,
           <<"keyColumns", JList(keyColumns)>>,
           <<"propertyDefinitions", JList(<<PropertyDefinition("id", "id")>>)>>})

DynamicNodeTable(name, labelNames, keyColumns, expr) ==
    JDict(NodeTable(name, labelNames, keyColumns).pairs
          \cup {<<"dynamicLabelExpr", JStr(expr)>>})

\* the four tables of schema_manager_test.py, and tables with a dynamicLabelExpr
SmTables ==
    { NodeTable("Person", <<JStr("Person")>>, <<JStr("id")>>),
      NodeTable("Account", <<JStr("Account")>>, <<JStr("account_id")>>),
      NodeTable("BankAccount", <<JStr("Account")>>, <<JStr("id")>>),
      NodeTable("People", <<JStr("Person"), JStr("Human")>>, <<JStr("id")>>),
      DynamicNodeTable("DynPerson", <<JStr("Person")>>, <<JStr("name")>>, "label_col"),
      DynamicNodeTable("DynAny", <<>>, <<JStr("key")>>, "label_col"),
      DynamicNodeTable("Human", <<JStr("Human")>>, <<JStr("name")>>, "") }

SchemaOf(tables) == JDict({<<"nodeTables", JList(tables)>>})

SmSchemas ==
    {None, JDict({})}
    \cup {SchemaOf(ts) : ts \in UNION {[1..n -> SmTables] : n \in 0..MaxTables}}

SmLabels ==
    { None, JList(<<>>), JList(<<JStr("Person")>>), JList(<<JStr("Account")>>),
      JList(<<JStr("Person"), JStr("Human")>>), JList(<<JStr("Human"), JStr("Person")>>),
      JList(<<JStr("Person"), JStr("Person")>>) }

SmProperties ==
    { None, JDict({}), JDict({<<"id", JStr("123")>>}), JDict({<<"name", JStr("John Doe")>>}),
      JDict({<<"id", JStr("123")>>, <<"name", JStr("John Doe")>>}),
      JDict({<<"type", JStr("Current")>>}) }

\* Node.from_json does not validate: any labels and properties reach the manager
SmArgs ==
    {JStr("NotANode")}
    \cup {Node(JStr("1"), l, p, FALSE) : l \in SmLabels, p \in SmProperties}

-----------------------------------------------------------------------------
(* SchemaManager: construction, then get_key_property_names calls           *)

ValIdle == val_data = None /\ val_pc = "idle" /\ val_out = None

SrvIdle ==
    /\ database_instances = {} /\ cloud_made = 0 /\ backend_log = <<>>
    /\ http_request = None /\ http_reply = None /\ srv_pc = "idle" /\ srv_n = 0

DbIdle == db = None /\ db_call = None /\ db_out = None

LifeIdle ==
    /\ _server = 0 /\ listeners = <<>> /\ server_threads = <<>>
    /\ stop_call = None /\ connections = <<>>

CallIdle == gdi_calls = <<>> /\ xq_calls = <<>>

ExtIdle == SrvIdle /\ DbIdle /\ LifeIdle /\ CallIdle

ConvIdle ==
    /\ data = None /\ fields = None /\ nodes = None /\ edges = None
    /\ node_identifiers = None /\ edge_identifiers = None
    /\ fi = 0 /\ vi = 0 /\ conv_pc = "idle"

SmInit ==
    /\ schema_json \in SmSchemas
    /\ schema_manager = None
    /\ sm_pc = "new"
    /\ sm_call = None
    /\ ConvIdle
    /\ ValIdle
    /\ ExtIdle

SmConstruct ==
    /\ sm_pc = "new"
    /\ schema_manager' = SchemaManager(schema_json)
    /\ sm_pc' = "ready"
    /\ UNCHANGED <<sm_call, convVars, valVars, extVars>>

\* one call is observed on each manager: the manager does not change after __init__
SmGetKeyPropertyNames ==
    /\ sm_pc = "ready"
    /\ conv_pc = "idle"
    /\ sm_call = None
    /\ \E node \in SmArgs :
          sm_call' = [node |-> node,
                      outcome |-> get_key_property_names(schema_manager, node)]
    /\ UNCHANGED <<schema_manager, sm_pc, convVars, valVars, extVars>>

SmNext == SmConstruct \/ SmGetKeyPropertyNames

SpecSchema == SmInit /\ [][SmNext]_vars

-----------------------------------------------------------------------------
(* Inputs of get_nodes_edges                                                *)

\* fields x rows of an input is at most MaxCells
MaxCells == 2

NodeJson(identifier, labels, properties) ==
    JDict({<<"kind", JStr("node")>>, <<"identifier", identifier>>,
           <<"labels", labels>>, <<"properties", properties>>})

EdgeJson(identifier, source, destination, labels) ==
    JDict({<<"kind", JStr("edge")>>, <<"identifier", identifier>>,
           <<"source_node_identifier", source>>,
           <<"destination_node_identifier", destination>>,
           <<"labels", labels>>, <<"properties", JDict({})>>})

Without(d, key) == JDict({p \in d.pairs : p[1] # key})

NodeA1 == NodeJson(JStr("a"), JList(<<JStr("Person")>>), JDict({<<"id", JStr("1")>>}))
NodeA2 == NodeJson(JStr("a"), JList(<<JStr("Account")>>), JDict({}))
NodeB == NodeJson(JStr("b"), JList(<<JStr("Person")>>), JDict({<<"id", JStr("2")>>}))
EdgeAB == EdgeJson(JStr("e1"), JStr("a"), JStr("b"), JList(<<JStr("KNOWS")>>))
EdgeAC == EdgeJson(JStr("e1"), JStr("a"), JStr("c"), JList(<<JStr("OWNS")>>))
EdgeCB == EdgeJson(JStr("e2"), JStr("c"), JStr("b"), JList(<<JStr("KNOWS")>>))
EdgeCB2 == EdgeJson(JStr("e2"), JStr("c"), JStr("b"), JList(<<JStr("OWNS")>>))

\* candidates that get_nodes_edges has to drop
Malformed ==
    << NodeJson(JStr("c"), JList(<<JInt(7)>>), JDict({})),
       NodeJson(JInt(7), JList(<<JStr("Person")>>), JDict({})),
       NodeJson(JStr("c"), JStr("Person"), JDict({})),
       NodeJson(JStr("c"), JList(<<JStr("Person")>>), JList(<<>>)),
       Without(NodeJson(JStr("c"), JList(<<>>), JDict({})), "identifier"),
       Without(NodeJson(JStr("c"), JList(<<>>), JDict({})), "labels"),
       Without(NodeJson(JStr("c"), JList(<<>>), JDict({})), "properties"),
       Without(NodeJson(JStr("c"), JList(<<>>), JDict({})), "kind"),
       EdgeJson(JStr("e3"), JInt(7), JStr("b"), JList(<<>>)),
       EdgeJson(JStr("e3"), JStr("a"), None, JList(<<>>)),
       EdgeJson(JStr("e3"), JStr("a"), JStr("d"), JList(<<None>>)),
       Without(EdgeJson(JStr("e3"), JStr("a"), JStr("d"), JList(<<>>)), "source_node_identifier"),
       Without(EdgeJson(JStr("e3"), JStr("a"), JStr("d"), JList(<<>>)), "destination_node_identifier"),
       Without(EdgeJson(JStr("e3"), JStr("a"), JStr("d"), JList(<<>>)), "identifier"),
       JDict({<<"kind", JStr("path")>>, <<"identifier", JStr("c")>>,
              <<"labels", JList(<<>>)>>, <<"properties", JDict({})>>}),
       JInt(7), JStr("node"), None >>

\* the values a row may hold in a column
ConvValues ==
    { NodeA1, NodeA2, EdgeAB, EdgeAC,
      JList(<<NodeA2, NodeB, NodeA1>>),
      [t |-> "ArrayValue", _array_value |-> <<EdgeCB, EdgeAB, EdgeCB2>>],
      JList(Malformed \o <<NodeB>>),
      JStr("{\"kind\": \"node\", \"identifier\": \"c\", \"labels\": [\"Person\"], \"properties\": {\"id\": \"3\"}}"),
      JStr("[{\"kind\": \"node\", \"identifier\": \"d\", \"labels\": [], \"properties\": {}}]"),
      JStr("{\"kind\": \"node\", "),
      None }

Typenames == {"JSON", "ARRAY", "STRING"}

\* the column names of a result; a field takes the name at its position
ColumnNames == <<"e", "d">>

\* a field of r rows: its typename and column, or a field whose name is no key of data
FieldChoices(r) ==
    {[typename |-> ty, column |-> JList(col)] : ty \in Typenames, col \in [1..r -> ConvValues]}
    \cup {[typename |-> "STRING", column |-> Absent]}

ConvInput(choice) ==
    [fields |-> [i \in DOMAIN choice |->
                    [name |-> ColumnNames[i], typename |-> choice[i].typename]],
     data |-> JDict({<<ColumnNames[i], choice[i].column>> :
                        i \in {j \in DOMAIN choice : choice[j].column # Absent}})]

\* the numbers of fields and of rows of an input
ConvShapes ==
    {fr \in (0..Len(ColumnNames)) \X (0..MaxCells) : fr[1] * fr[2] <= MaxCells}

ConvSchemas ==
    {None, SchemaOf(<<NodeTable("Person", <<JStr("Person")>>, <<JStr("id")>>)>>)}

-----------------------------------------------------------------------------
(* get_nodes_edges as a loop over the fields and the values of each column  *)

SmReady ==
    /\ schema_manager = SchemaManager(schema_json)
    /\ sm_pc = "ready"
    /\ sm_call = None

\* lines 76-80
ConvInit ==
    /\ \E fr \in ConvShapes : \E choice \in [1..fr[1] -> FieldChoices(fr[2])] :
          /\ fields = ConvInput(choice).fields
          /\ data = ConvInput(choice).data
    /\ schema_json \in ConvSchemas
    /\ nodes = <<>> /\ edges = <<>>
    /\ node_identifiers = {} /\ edge_identifiers = {}
    /\ fi = 1 /\ vi = 1
    /\ conv_pc = "loop"
    /\ SmReady
    /\ ValIdle
    /\ ExtIdle

AtField == conv_pc = "loop" /\ fi <= Len(fields)

NextValue(column_data) ==
    IF vi < Len(column_data)
    THEN vi' = vi + 1 /\ fi' = fi
    ELSE vi' = 1 /\ fi' = fi + 1

\* line 85: data[column_name] on a name that is no key of data
ConvKeyError ==
    /\ AtField
    /\ ~Has(data, fields[fi].name)
    /\ conv_pc' = "raised"
    /\ UNCHANGED <<data, fields, schema_json, nodes, edges, node_identifiers,
                   edge_identifiers, fi, vi, smVars, valVars, extVars>>

\* lines 88-89, or a column without values
ConvSkipField ==
    /\ AtField
    /\ Has(data, fields[fi].name)
    /\ ~is_graph_column(fields[fi]) \/ len(Get(data, fields[fi].name)) = 0
    /\ fi' = fi + 1 /\ vi' = 1
    /\ UNCHANGED <<data, fields, schema_json, nodes, edges, node_identifiers,
                   edge_identifiers, conv_pc, smVars, valVars, extVars>>

\* lines 92-126 for one value
ConvProcessValue ==
    /\ AtField
    /\ Has(data, fields[fi].name)
    /\ is_graph_column(fields[fi])
    /\ len(Get(data, fields[fi].name)) > 0
    /\ LET column_data == Get(data, fields[fi].name).items
           acc == process_value(Acc(nodes, edges, node_identifiers, edge_identifiers),
                                column_data[vi], schema_manager)
       IN  /\ nodes' = acc.nodes
           /\ edges' = acc.edges
           /\ node_identifiers' = acc.node_identifiers
           /\ edge_identifiers' = acc.edge_identifiers
           /\ NextValue(column_data)
    /\ UNCHANGED <<data, fields, schema_json, conv_pc, smVars, valVars, extVars>>

\* lines 128-141
ConvPlaceholders ==
    /\ conv_pc = "loop" /\ fi > Len(fields)
    /\ LET missing == missing_node_identifiers(edges, node_identifiers)
       IN  /\ \E order \in Orders(missing) :
                 nodes' = nodes \o [i \in DOMAIN order |-> make_intermediate(order[i])]
           /\ node_identifiers' = node_identifiers \cup missing
    /\ conv_pc' = "done"
    /\ UNCHANGED <<data, fields, schema_json, edges, edge_identifiers, fi, vi, smVars, valVars, extVars>>

ConvNext == ConvKeyError \/ ConvSkipField \/ ConvProcessValue \/ ConvPlaceholders

SpecConv == ConvInit /\ [][ConvNext]_vars

\* get_nodes_edges run to its return on the arguments d, f: the kept input nodes,
\* the kept edges and the identifiers that get a placeholder
RECURSIVE ConvColumn(_, _, _)
ConvColumn(acc, column_data, sm) ==
    IF column_data = <<>> THEN acc
    ELSE ConvColumn(process_value(acc, Head(column_data), sm), Tail(column_data), sm)

RECURSIVE ConvFields(_, _, _, _)
ConvFields(acc, d, f, sm) ==
    IF f = <<>> THEN acc
    ELSE IF ~Has(d, Head(f).name) THEN [acc EXCEPT !.raised = "KeyError"]
    ELSE IF ~is_graph_column(Head(f)) THEN ConvFields(acc, d, Tail(f), sm)
    ELSE ConvFields(ConvColumn(acc, Get(d, Head(f).name).items, sm), d, Tail(f), sm)

get_nodes_edges(d, f, schema) ==
    LET acc == ConvFields([nodes |-> <<>>, edges |-> <<>>, node_identifiers |-> {},
                           edge_identifiers |-> {}, raised |-> "none"],
                          d, f, SchemaManager(schema))
    IN  [raised |-> acc.raised, nodes |-> acc.nodes, edges |-> acc.edges,
         missing |-> missing_node_identifiers(acc.edges, acc.node_identifiers)]

-----------------------------------------------------------------------------
(* Claims about get_nodes_edges                                             *)

AllFieldsInData == \A i \in DOMAIN fields : Has(data, fields[i].name)

HasTyped(c, key, type) == Has(c, key) /\ Get(c, key).t = type

\* a node candidate of the right shape, as the specification words it
WellFormedNode(c) ==
    /\ c.t = "dict" /\ Has(c, "kind") /\ Get(c, "kind") = JStr("node")
    /\ HasTyped(c, "identifier", "str")
    /\ HasTyped(c, "labels", "list")
    /\ HasTyped(c, "properties", "dict")
    /\ \A l \in Range(Get(c, "labels").items) : l.t = "str"

WellFormedEdge(c) ==
    /\ c.t = "dict" /\ Has(c, "kind") /\ Get(c, "kind") = JStr("edge")
    /\ HasTyped(c, "identifier", "str")
    /\ HasTyped(c, "source_node_identifier", "str")
    /\ HasTyped(c, "destination_node_identifier", "str")
    /\ HasTyped(c, "labels", "list")
    /\ HasTyped(c, "properties", "dict")
    /\ \A l \in Range(Get(c, "labels").items) : l.t = "str"

RECURSIVE Flatten(_)
Flatten(seqs) == IF seqs = <<>> THEN <<>> ELSE Head(seqs) \o Flatten(Tail(seqs))

\* the candidates of an input in field-then-row-then-element order
Candidates(d, f) ==
    Flatten([i \in DOMAIN f |->
        IF f[i].typename \in {"JSON", "ARRAY"} /\ Has(d, f[i].name)
        THEN Flatten([r \in DOMAIN Get(d, f[i].name).items |->
                         items_to_process(Get(d, f[i].name).items[r])])
        ELSE <<>>])

First(S) == CHOOSE i \in S : \A j \in S : i <= j

IdSet(seq) == {seq[i].identifier : i \in DOMAIN seq}

InputNodeIds == {Get(c, "identifier") : c \in {x \in Range(Candidates(data, fields)) : WellFormedNode(x)}}

\* C1: the returned nodes have pairwise distinct identifiers, placeholders
\* included, and so have the returned edges.
C1_UniqueIdentifiers ==
    conv_pc = "done" =>
        /\ \A i, j \in DOMAIN nodes : nodes[i].identifier = nodes[j].identifier => i = j
        /\ \A i, j \in DOMAIN edges : edges[i].identifier = edges[j].identifier => i = j

\* the input repeated a node identifier and an edge needed a placeholder
C1_Witness ==
    /\ conv_pc = "done"
    /\ LET cand == Candidates(data, fields)
       IN  \E i, j \in DOMAIN cand :
              /\ i < j /\ WellFormedNode(cand[i]) /\ WellFormedNode(cand[j])
              /\ Get(cand[i], "identifier") = Get(cand[j], "identifier")
    /\ \E i \in DOMAIN nodes : nodes[i].intermediate

\* C2: every returned edge has its source and its destination among the returned
\* nodes' identifiers.
C2_ReferentialClosure ==
    conv_pc = "done" =>
        \A i \in DOMAIN edges :
           /\ edges[i].source \in IdSet(nodes)
           /\ edges[i].destination \in IdSet(nodes)

\* an edge whose source and destination were both not returned as nodes
C2_Witness ==
    /\ conv_pc = "done"
    /\ LET ids == InputNodeIds
       IN  \E i \in DOMAIN edges :
              /\ edges[i].source \notin ids
              /\ edges[i].destination \notin ids
              /\ edges[i].source # edges[i].destination

\* C3: the nodes with intermediate = true are exactly one per identifier that a
\* kept edge references and no kept input node has; each is labelled
\* ["Intermediate"]; every node built from an input candidate has intermediate = false.
C3_Placeholders ==
    conv_pc = "done" =>
        LET ids == InputNodeIds
            wanted == ({edges[i].source : i \in DOMAIN edges}
                       \cup {edges[i].destination : i \in DOMAIN edges}) \ ids
        IN  /\ {nodes[i].identifier : i \in {j \in DOMAIN nodes : nodes[j].intermediate}}
                 = wanted
            /\ \A id \in wanted :
                  Cardinality({i \in DOMAIN nodes : nodes[i].identifier = id}) = 1
            /\ \A i \in DOMAIN nodes :
                  /\ nodes[i].intermediate => nodes[i].labels = JList(<<JStr("Intermediate")>>)
                  /\ nodes[i].identifier \in ids => ~nodes[i].intermediate

\* two kept edges reference the same identifier that no input node has
C3_Witness ==
    /\ conv_pc = "done"
    /\ LET ids == InputNodeIds
       IN  \E i, j \in DOMAIN edges :
              /\ i # j
              /\ edges[i].destination = edges[j].destination
              /\ edges[i].destination \notin ids
    /\ \E i \in DOMAIN nodes : ~nodes[i].intermediate

\* C4: a kept node (edge) carries the labels, properties (and endpoints) of the
\* first well-formed candidate with its identifier, in field-then-row-then-element
\* order; later candidates with that identifier change nothing.
C4_FirstWins ==
    conv_pc = "done" =>
        LET cand == Candidates(data, fields)
            firstNode(id) == cand[First({k \in DOMAIN cand :
                                WellFormedNode(cand[k]) /\ Get(cand[k], "identifier") = id})]
            firstEdge(id) == cand[First({k \in DOMAIN cand :
                                WellFormedEdge(cand[k]) /\ Get(cand[k], "identifier") = id})]
        IN  /\ \A i \in DOMAIN nodes :
                  ~nodes[i].intermediate =>
                     /\ nodes[i].labels = Get(firstNode(nodes[i].identifier), "labels")
                     /\ nodes[i].properties = Get(firstNode(nodes[i].identifier), "properties")
            /\ \A i \in DOMAIN edges :
                  /\ edges[i].labels = Get(firstEdge(edges[i].identifier), "labels")
                  /\ edges[i].properties = Get(firstEdge(edges[i].identifier), "properties")
                  /\ edges[i].source =
                        Get(firstEdge(edges[i].identifier), "source_node_identifier")
                  /\ edges[i].destination =
                        Get(firstEdge(edges[i].identifier), "destination_node_identifier")

\* a later node candidate and a later edge candidate repeat an identifier with
\* other labels
C4_Witness ==
    /\ conv_pc = "done"
    /\ LET cand == Candidates(data, fields)
       IN  /\ \E i, j \in DOMAIN cand :
                 /\ i < j /\ WellFormedNode(cand[i]) /\ WellFormedNode(cand[j])
                 /\ Get(cand[i], "identifier") = Get(cand[j], "identifier")
                 /\ Get(cand[i], "labels") # Get(cand[j], "labels")
           /\ \E i, j \in DOMAIN cand :
                 /\ i < j /\ WellFormedEdge(cand[i]) /\ WellFormedEdge(cand[j])
                 /\ Get(cand[i], "identifier") = Get(cand[j], "identifier")
                 /\ Get(cand[i], "labels") # Get(cand[j], "labels")

Perms(n) == {p \in [1..n -> 1..n] : \A i, j \in 1..n : p[i] = p[j] => i = j}

PermuteFields(f, p) == [i \in DOMAIN f |-> f[p[i]]]

\* the same permutation of the rows, applied to every column
PermuteRows(d, p) ==
    JDict({<<c[1], JList([i \in DOMAIN c[2].items |-> c[2].items[p[i]]])>> : c \in d.pairs})

RowCount(d) == IF d.pairs = {} THEN 0 ELSE len((CHOOSE c \in d.pairs : TRUE)[2])

\* get_nodes_edges on the input with its fields and rows permuted
Permuted(fp, rp) ==
    get_nodes_edges(PermuteRows(data, rp), PermuteFields(fields, fp), schema_json)

\* the node identifiers of a result: the kept input nodes and the placeholders
NodeIdsOf(out) == IdSet(out.nodes) \cup out.missing

\* well-formed edge candidates that share an identifier share their endpoints
ConsistentEndpoints ==
    LET es == {c \in Range(Candidates(data, fields)) : WellFormedEdge(c)}
    IN  \A x, y \in es :
           Get(x, "identifier") = Get(y, "identifier") =>
              /\ Get(x, "source_node_identifier") = Get(y, "source_node_identifier")
              /\ Get(x, "destination_node_identifier") = Get(y, "destination_node_identifier")

\* C5 as stated: permuting the fields and the rows changes neither identifier set,
\* also when edges with one identifier differ in their endpoints
C5_OrderIndependent ==
    conv_pc = "done" =>
        \A fp \in Perms(Len(fields)), rp \in Perms(RowCount(data)) :
           LET out == Permuted(fp, rp)
           IN  /\ IdSet(out.edges) = IdSet(edges)
               /\ NodeIdsOf(out) = IdSet(nodes)

\* C5 (amended): for any permutation of the fields and of the rows the set of edge
\* identifiers is the same, and the set of node identifiers is the same provided
\* the well-formed edges that share an identifier have the same endpoints.
C5_OrderIndependentMembership ==
    conv_pc = "done" =>
        LET consistent == ConsistentEndpoints
        IN  \A fp \in Perms(Len(fields)), rp \in Perms(RowCount(data)) :
               LET out == Permuted(fp, rp)
               IN  /\ IdSet(out.edges) = IdSet(edges)
                   /\ consistent => NodeIdsOf(out) = IdSet(nodes)

\* a permutation that changes the order of the kept edges of an input with
\* consistent endpoints and placeholders
C5_Witness ==
    /\ conv_pc = "done"
    /\ ConsistentEndpoints
    /\ \E i \in DOMAIN nodes : nodes[i].intermediate
    /\ \E fp \in Perms(Len(fields)), rp \in Perms(RowCount(data)) :
          Permuted(fp, rp).edges # edges

\* the input without what best-effort extraction has to ignore: graph columns
\* only, every value replaced by the list of its well-formed candidates
CleanFields(f) == SelectSeq(f, LAMBDA x : x.typename \in {"JSON", "ARRAY"})

CleanValue(value) ==
    JList(SelectSeq(items_to_process(value), LAMBDA c : WellFormedNode(c) \/ WellFormedEdge(c)))

CleanData(d) ==
    JDict({<<c[1], JList([i \in DOMAIN c[2].items |-> CleanValue(c[2].items[i])])>> :
              c \in d.pairs})

\* C6: when every field name is a key of data, get_nodes_edges does not raise and
\* returns what it returns on the input without the non-graph fields, the
\* unparsable strings and the malformed candidates (the placeholders up to order).
C6_BestEffort ==
    AllFieldsInData =>
        /\ conv_pc # "raised"
        /\ conv_pc = "done" =>
              LET clean == get_nodes_edges(CleanData(data), CleanFields(fields), schema_json)
              IN  /\ clean.raised = "none"
                  /\ SelectSeq(nodes, LAMBDA n : ~n.intermediate) = clean.nodes
                  /\ edges = clean.edges
                  /\ {nodes[i].identifier : i \in {j \in DOMAIN nodes : nodes[j].intermediate}}
                        = clean.missing

\* a column mixing malformed candidates with a node, beside an unparsable string
\* or a column that is no graph column
C6_Witness ==
    /\ conv_pc = "done"
    /\ AllFieldsInData
    /\ \E i \in DOMAIN fields :
          /\ is_graph_column(fields[i])
          /\ JList(Malformed \o <<NodeB>>) \in Range(Get(data, fields[i].name).items)
    /\ \E i \in DOMAIN fields :
          \/ ~is_graph_column(fields[i])
          \/ JStr("{\"kind\": \"node\", ") \in Range(Get(data, fields[i].name).items)
    /\ IdSet(nodes) = {JStr("b")}

-----------------------------------------------------------------------------
(* Claims about the SchemaManager                                           *)

HasDynamicLabelExpr(node_table) ==
    GetOr(node_table, "dynamicLabelExpr", JStr("")) # JStr("")

Count(x, seq) == Cardinality({i \in DOMAIN seq : seq[i] = x})

SameLabelSet(node_table, node) ==
    Range(GetOr(node_table, "labelNames", JList(<<>>)).items) = Range(node.labels.items)

SameLabelBag(node_table, node) ==
    LET names == GetOr(node_table, "labelNames", JList(<<>>)).items
    IN  \A l \in Range(names) \cup Range(node.labels.items) :
           Count(l, names) = Count(l, node.labels.items)

KeysPresent(node_table, node) ==
    \A k \in Range(GetOr(node_table, "keyColumns", JList(<<>>)).items) :
       k.s \in Keys(node.properties)

\* keyColumns of the first table, in schema order, that qualifies; [] when none does
FirstQualifying(tables, node, Qualifies(_, _)) ==
    LET hits == {i \in DOMAIN tables : Qualifies(tables[i], node)}
    IN  IF hits = {} THEN JList(<<>>)
        ELSE GetOr(tables[CHOOSE i \in hits : \A j \in hits : i <= j],
                   "keyColumns", JList(<<>>))

SetQualifies(node_table, node) ==
    SameLabelSet(node_table, node) /\ KeysPresent(node_table, node)

BagQualifies(node_table, node) ==
    SameLabelBag(node_table, node) /\ KeysPresent(node_table, node)

\* a call on a node with a label and a property, under a schema without dynamic tables
C7Case ==
    /\ sm_call # None
    /\ isinstance(sm_call.node, "Node")
    /\ isinstance(sm_call.node.labels, "list") /\ len(sm_call.node.labels) >= 1
    /\ isinstance(sm_call.node.properties, "dict") /\ len(sm_call.node.properties) >= 1
    /\ \A i \in DOMAIN NodeTables(schema_manager.schema_dict) :
          ~HasDynamicLabelExpr(NodeTables(schema_manager.schema_dict)[i])

C8_DynamicFlagIffAnyTable ==
    sm_pc = "ready" =>
        (schema_manager.dynamic_node <=>
            \E i \in DOMAIN NodeTables(schema_manager.schema_dict) :
               HasDynamicLabelExpr(NodeTables(schema_manager.schema_dict)[i]))

\* C9: get_key_property_names returns [] for every node with empty properties or
\* empty labels, under every schema, and raises TypeError for a non-Node argument.
C9_EmptyOrNotANode ==
    sm_call # None =>
        /\ ~isinstance(sm_call.node, "Node") => sm_call.outcome = Raised("TypeError")
        /\ ( /\ isinstance(sm_call.node, "Node")
             /\ \/ sm_call.node.properties = JDict({})
                \/ sm_call.node.labels = JList(<<>>) )
           => sm_call.outcome = Returned(JList(<<>>))

\* empty labels, non-empty properties, the dynamic flag set and a table whose
\* (empty) label set is a subset of the node's: only the early return gives []
C9_Witness ==
    /\ sm_call # None
    /\ isinstance(sm_call.node, "Node")
    /\ sm_call.node.labels = JList(<<>>)
    /\ isinstance(sm_call.node.properties, "dict") /\ len(sm_call.node.properties) >= 1
    /\ schema_manager.dynamic_node
    /\ \E i \in DOMAIN NodeTables(schema_manager.schema_dict) :
          GetOr(NodeTables(schema_manager.schema_dict)[i], "labelNames", None) = JList(<<>>)
    /\ sm_call.outcome = Returned(JList(<<>>))

-----------------------------------------------------------------------------
(* graph_server.py: validate_node_expansion_request                         *)

\* the characters of the str values that occur in requests
Chars(s) ==
    CASE s = "" -> <<>>
      [] s = "BOOL" -> <<"B", "O", "O", "L">>
      [] s = "BYTES" -> <<"B", "Y", "T", "E", "S">>
      [] s = "DATE" -> <<"D", "A", "T", "E">>
      [] s = "ENUM" -> <<"E", "N", "U", "M">>
      [] s = "INT64" -> <<"I", "N", "T", "6", "4">>
      [] s = "NUMERIC" -> <<"N", "U", "M", "E", "R", "I", "C">>
      [] s = "FLOAT32" -> <<"F", "L", "O", "A", "T", "3", "2">>
      [] s = "FLOAT64" -> <<"F", "L", "O", "A", "T", "6", "4">>
      [] s = "STRING" -> <<"S", "T", "R", "I", "N", "G">>
      [] s = "TIMESTAMP" -> <<"T", "I", "M", "E", "S", "T", "A", "M", "P">>
      [] s = "bool" -> <<"b", "o", "o", "l">>
      [] s = "bytes" -> <<"b", "y", "t", "e", "s">>
      [] s = "date" -> <<"d", "a", "t", "e">>
      [] s = "enum" -> <<"e", "n", "u", "m">>
      [] s = "int64" -> <<"i", "n", "t", "6", "4">>
      [] s = "numeric" -> <<"n", "u", "m", "e", "r", "i", "c">>
      [] s = "float32" -> <<"f", "l", "o", "a", "t", "3", "2">>
      [] s = "float64" -> <<"f", "l", "o", "a", "t", "6", "4">>
      [] s = "string" -> <<"s", "t", "r", "i", "n", "g">>
      [] s = "timestamp" -> <<"t", "i", "m", "e", "s", "t", "a", "m", "p">>
      [] s = "Bool" -> <<"B", "o", "o", "l">>
      [] s = "ARRAY" -> <<"A", "R", "R", "A", "Y">>
      [] s = "123" -> <<"1", "2", "3">>
      [] s = "abc" -> <<"a", "b", "c">>
      [] s = "-5" -> <<"-", "5">>
      [] s = "1.5" -> <<"1", ".", "5">>
      [] s = "True" -> <<"T", "r", "u", "e">>
      [] s = "true" -> <<"t", "r", "u", "e">>
      [] s = "false" -> <<"f", "a", "l", "s", "e">>
      [] s = "GRAPH" -> <<"G", "R", "A", "P", "H">>
      [] s = "graph" -> <<"g", "r", "a", "p", "h">>
      [] s = "SELECT" -> <<"S", "E", "L", "E", "C", "T">>
      [] s = "g" -> <<"g">>
      [] s = "p" -> <<"p">>
      [] s = "i" -> <<"i">>
      [] s = "d" -> <<"d">>
      [] s = "a" -> <<"a">>
      [] s = "b" -> <<"b">>
      [] s = "c" -> <<"c">>
      [] s = "e" -> <<"e">>
      [] s = "a_b" -> <<"a", "_", "b">>
      [] s = "b_c" -> <<"b", "_", "c">>
      [] s = "None" -> <<"N", "o", "n", "e">>
      [] s = "age" -> <<"a", "g", "e">>
      [] s = "name" -> <<"n", "a", "m", "e">>
      [] s = "id" -> <<"i", "d">>
      [] s = "5" -> <<"5">>

UpperCase ==
    [a |-> "A", b |-> "B", c |-> "C", d |-> "D", e |-> "E", f |-> "F", g |-> "G",
     h |-> "H", i |-> "I", j |-> "J", k |-> "K", l |-> "L", m |-> "M", n |-> "N",
     o |-> "O", p |-> "P", q |-> "Q", r |-> "R", s |-> "S", t |-> "T", u |-> "U",
     v |-> "V", w |-> "W", x |-> "X", y |-> "Y", z |-> "Z"]

\* str.upper and str.lower, on the characters
upper(chars) ==
    [i \in DOMAIN chars |->
        IF chars[i] \in DOMAIN UpperCase THEN UpperCase[chars[i]] ELSE chars[i]]

lower(chars) ==
    [i \in DOMAIN chars |->
        IF \E c \in DOMAIN UpperCase : UpperCase[c] = chars[i]
        THEN CHOOSE c \in DOMAIN UpperCase : UpperCase[c] = chars[i]
        ELSE chars[i]]

Digits == {"0", "1", "2", "3", "4", "5", "6", "7", "8", "9"}

\* str.isdigit
isdigit(chars) == chars # <<>> /\ \A i \in DOMAIN chars : chars[i] \in Digits

\* whether float(value) returns: numbers convert, a str has to be a decimal
\* literal (sign, digits, at most one point; the strings of the model carry no
\* exponent, blank or underscore) or inf / infinity / nan, None raises TypeError
float_ok(value) ==
    IF value.t \in {"int", "bool", "float"} THEN TRUE
    ELSE IF value.t # "str" THEN FALSE
    ELSE LET chars == Chars(value.s)
             body == IF chars # <<>> /\ chars[1] \in {"+", "-"} THEN Tail(chars) ELSE chars
         IN  \/ /\ \A i \in DOMAIN body : body[i] \in Digits \cup {"."}
                /\ \E i \in DOMAIN body : body[i] \in Digits
                /\ Cardinality({i \in DOMAIN body : body[i] = "."}) <= 1
             \/ lower(body) \in {<<"i", "n", "f">>, <<"n", "a", "n">>,
                                 <<"i", "n", "f", "i", "n", "i", "t", "y">>}

\* line 31
PROPERTY_TYPE_SET ==
    {"BOOL", "BYTES", "DATE", "ENUM", "INT64", "NUMERIC", "FLOAT32", "FLOAT64",
     "STRING", "TIMESTAMP"}

ValueError(message, detail) == [ok |-> FALSE, error |-> message, detail |-> detail]

\* lines 55-79: TRUE, or the ValueError raised
is_valid_property_type(property_type) ==
    IF property_type = "" THEN ValueError("Property type must be provided", None)
    ELSE IF \E ty \in PROPERTY_TYPE_SET : Chars(ty) = upper(Chars(property_type))
         THEN [ok |-> TRUE]
         ELSE ValueError("Invalid property type", JStr(property_type))

\* line 82
required_fields ==
    <<"project", "instance", "database", "graph", "uid", "node_labels", "direction">>

\* lines 117-129: the ValueError the value of a property raises for its type, if
\* any; bool is a subclass of int
value_error(prop) ==
    LET prop_type_str == Get(prop, "type").s
        value == Get(prop, "value")
        detail == [key |-> Get(prop, "key"), type |-> prop_type_str]
    IN  IF prop_type_str \in {"INT64", "NUMERIC"}
        THEN IF ~(value.t \in {"int", "bool"} \/ (value.t = "str" /\ isdigit(Chars(value.s))))
             THEN ValueError("value must be a number", detail) ELSE [ok |-> TRUE]
        ELSE IF prop_type_str \in {"FLOAT32", "FLOAT64"}
        THEN IF ~float_ok(value)
             THEN ValueError("value must be a valid float", detail) ELSE [ok |-> TRUE]
        ELSE IF prop_type_str = "BOOL"
        THEN IF value.t # "bool"
                /\ ~(value.t = "str" /\ lower(Chars(value.s)) \in {Chars("true"), Chars("false")})
             THEN ValueError("value must be a boolean", detail) ELSE [ok |-> TRUE]
        ELSE [ok |-> TRUE]

\* line 139: a ValueError raised inside the try is raised again, wrapped
Wrapped(idx, e) ==
    ValueError("Invalid property type in property", [index |-> idx, cause |-> e])

\* lines 105-139 for the property at index idx (from 0): the validated
\* NodePropertyForDataExploration, or the ValueError raised
validate_property(idx, prop) ==
    IF ~isinstance(prop, "dict")
    THEN ValueError("Property must be an object", [index |-> idx])
    ELSE IF ~(\A field \in {"key", "value", "type"} : Has(prop, field))
    THEN ValueError("Property is missing required fields (key, value, type)", [index |-> idx])
    ELSE IF ~isinstance(Get(prop, "type"), "str")
    THEN Wrapped(idx, ValueError("Property type must be a string", [index |-> idx]))
    ELSE IF ~is_valid_property_type(Get(prop, "type").s).ok
    THEN Wrapped(idx, is_valid_property_type(Get(prop, "type").s))
    ELSE IF ~value_error(prop).ok
    THEN Wrapped(idx, value_error(prop))
    ELSE [ok |-> TRUE,
          property |-> [key |-> Get(prop, "key"), value |-> Get(prop, "value"),
                        type_str |-> Get(prop, "type").s]]

RECURSIVE validate_properties(_, _, _)
validate_properties(node_properties, idx, validated) ==
    IF idx >= Len(node_properties)
    THEN [ok |-> TRUE, validated_properties |-> validated]
    ELSE LET r == validate_property(idx, node_properties[idx + 1])
         IN  IF r.ok
             THEN validate_properties(node_properties, idx + 1, Append(validated, r.property))
             ELSE r

\* lines 51-53, 141-144: the EdgeDirection of a value
EdgeDirection(value) ==
    IF value \in {JStr("INCOMING"), JStr("OUTGOING")}
    THEN [ok |-> TRUE, direction |-> value.s]
    ELSE ValueError("Invalid direction: must be INCOMING or OUTGOING", value)

\* lines 81-146 with only the first missing field reported
validate_node_expansion_request_first_missing(d) ==
    LET missing_fields == SelectSeq(required_fields, LAMBDA field : GetOr(d, field, None) = None)
        node_labels == GetOr(d, "node_labels", None)
        node_properties == GetOr(d, "node_properties", JList(<<>>))
    IN  IF missing_fields # <<>>
        THEN ValueError("Missing required fields", <<missing_fields[1]>>)
        ELSE IF ~isinstance(node_labels, "list")
        THEN ValueError("node_labels must be an array", None)
        ELSE IF \E i \in DOMAIN node_labels.items : ~isinstance(node_labels.items[i], "str")
        THEN ValueError("Each node label must be a string", None)
        ELSE IF ~isinstance(node_properties, "list")
        THEN ValueError("node_properties must be an array", None)
        ELSE LET props == validate_properties(node_properties.items, 0, <<>>)
                 direction == EdgeDirection(GetOr(d, "direction", None))
             IN  IF ~props.ok THEN props
                 ELSE IF ~direction.ok THEN direction
                 ELSE [ok |-> TRUE, validated_properties |-> props.validated_properties,
                       direction |-> direction.direction]

\* lines 81-146
validate_node_expansion_request(d) ==
    LET missing_fields == SelectSeq(required_fields, LAMBDA field : GetOr(d, field, None) = None)
        node_labels == GetOr(d, "node_labels", None)
        node_properties == GetOr(d, "node_properties", JList(<<>>))
    IN  IF missing_fields # <<>>
        THEN ValueError("Missing required fields", missing_fields)
        ELSE IF ~isinstance(node_labels, "list")
        THEN ValueError("node_labels must be an array", None)
        ELSE IF \E i \in DOMAIN node_labels.items : ~isinstance(node_labels.items[i], "str")
        THEN ValueError("Each node label must be a string", None)
        ELSE IF ~isinstance(node_properties, "list")
        THEN ValueError("node_properties must be an array", None)
        ELSE LET props == validate_properties(node_properties.items, 0, <<>>)
                 direction == EdgeDirection(GetOr(d, "direction", None))
             IN  IF ~props.ok THEN props
                 ELSE IF ~direction.ok THEN direction
                 ELSE [ok |-> TRUE, validated_properties |-> props.validated_properties,
                       direction |-> direction.direction]

-----------------------------------------------------------------------------
(* Requests handed to validate_node_expansion_request                       *)

MaxProps == 1
MaxMissing == 2

PropTypes ==
    {JStr("INT64"), JStr("NUMERIC"), JStr("FLOAT32"), JStr("FLOAT64"), JStr("BOOL"),
     JStr("STRING"), JStr("DATE"), JStr("int64"), JStr("numeric"), JStr("float64"),
     JStr("bool"), JStr("Bool"), JStr("string"), JStr("ARRAY"), JStr(""), JInt(1)}

PropValues ==
    {JInt(5), JBool(TRUE), JFloat("1.5"), None, JStr("123"), JStr("abc"), JStr("-5"),
     JStr("1.5"), JStr("True")}

PropKeys == {JStr("age"), JStr("name")}

Property(key, value, type) == JDict({<<"key", key>>, <<"value", value>>, <<"type", type>>})

MalformedProperties ==
    {JStr("age"),
     JDict({<<"key", JStr("age")>>, <<"value", JInt(5)>>}),
     JDict({<<"key", JStr("age")>>, <<"type", JStr("INT64")>>}),
     JDict({<<"value", JInt(5)>>, <<"type", JStr("INT64")>>})}

\* a request whose required fields are all in order
Request(node_properties) ==
    JDict({<<"project", JStr("p")>>, <<"instance", JStr("i")>>, <<"database", JStr("d")>>,
           <<"graph", JStr("g")>>, <<"uid", JStr("u1")>>,
           <<"node_labels", JList(<<JStr("Person")>>)>>,
           <<"direction", JStr("OUTGOING")>>,
           <<"node_properties", JList(node_properties)>>})

FieldValues(field) ==
    {None, Absent} \cup
    CASE field = "node_labels" ->
            {JList(<<JStr("Person"), JStr("Account")>>), JStr("Person"),
             JList(<<JStr("Person"), JInt(1)>>)}
      [] field = "direction" ->
            {JStr("INCOMING"), JStr("OUTGOING"), JStr("outgoing"), JStr("SIDEWAYS")}
      [] field = "node_properties" ->
            {JList(<<>>), JStr("age"), JList(<<JStr("age")>>)}
      [] OTHER -> {JStr("x")}

RequestFields == Range(required_fields) \cup {"node_properties"}

\* the dict with the chosen values; a field chosen Absent is not a key of it
RequestOf(choice) ==
    JDict({<<field, choice[field]>> : field \in {f \in RequestFields : choice[f] # Absent}})

MissingCount(choice) ==
    Cardinality({f \in Range(required_fields) : choice[f] \in {None, Absent}})

-----------------------------------------------------------------------------
(* validate_node_expansion_request as one call                              *)

SmIdle ==
    /\ schema_json = None
    /\ schema_manager = None
    /\ sm_pc = "idle"
    /\ sm_call = None

ValInit ==
    /\ \/ \E n \in 0..MaxProps :
             \E props \in [1..n -> {Property(k, v, ty) : k \in PropKeys, v \in PropValues,
                                                         ty \in PropTypes}
                                   \cup MalformedProperties] :
                val_data = Request(props)
       \/ \E project, instance, database, graph, uid \in FieldValues("project") :
             \E node_labels \in FieldValues("node_labels") :
                \E direction \in FieldValues("direction") :
                   \E node_properties \in FieldValues("node_properties") :
                      LET choice == [project |-> project, instance |-> instance,
                                     database |-> database, graph |-> graph, uid |-> uid,
                                     node_labels |-> node_labels, direction |-> direction,
                                     node_properties |-> node_properties]
                      IN  /\ MissingCount(choice) <= MaxMissing
                          /\ val_data = RequestOf(choice)
    /\ val_pc = "called"
    /\ val_out = None
    /\ ConvIdle
    /\ SmIdle
    /\ ExtIdle

Validate ==
    /\ val_pc = "called"
    /\ val_out' = validate_node_expansion_request(val_data)
    /\ val_pc' = IF validate_node_expansion_request(val_data).ok THEN "returned" ELSE "raised"
    /\ UNCHANGED <<val_data, convVars, smVars, extVars>>

ValNext == Validate

SpecValidate == ValInit /\ [][ValNext]_vars

-----------------------------------------------------------------------------
(* Claims about validate_node_expansion_request                             *)

WellFormedProperty(prop) ==
    /\ isinstance(prop, "dict")
    /\ \A field \in {"key", "value", "type"} : Has(prop, field)
    /\ isinstance(Get(prop, "type"), "str")

\* the type of the property compared without regard to letter case
TypeIs(prop, types) == \E ty \in types : upper(Chars(Get(prop, "type").s)) = Chars(ty)

\* the value does not fit the type of the property
TypeMismatch(prop) ==
    LET value == Get(prop, "value")
    IN  \/ /\ TypeIs(prop, {"INT64", "NUMERIC"})
           /\ ~(value.t \in {"int", "bool"} \/ (value.t = "str" /\ isdigit(Chars(value.s))))
        \/ /\ TypeIs(prop, {"FLOAT32", "FLOAT64"})
           /\ ~float_ok(value)
        \/ /\ TypeIs(prop, {"BOOL"})
           /\ value.t # "bool"
           /\ ~(value.t = "str" /\ lower(Chars(value.s)) \in {Chars("true"), Chars("false")})

RequestProperties == GetOr(val_data, "node_properties", JList(<<>>))

\* C10: a property constraint whose type is, in any letter case, INT64 or NUMERIC
\* and whose value is neither an integer nor a digit-only string, or FLOAT32 or
\* FLOAT64 and whose value does not parse as a float, or BOOL and whose value is
\* neither a boolean nor "true"/"false" in any letter case, makes validation
\* fail; when the properties before it are in order, the error cites its key.
C10_TypedValueChecked ==
    (val_pc # "called" /\ isinstance(RequestProperties, "list")) =>
        \A i \in DOMAIN RequestProperties.items :
            LET prop == RequestProperties.items[i]
            IN  (WellFormedProperty(prop) /\ TypeMismatch(prop)) =>
                    /\ val_pc = "raised"
                    /\ (\A j \in 1..(i - 1) :
                            validate_property(j - 1, RequestProperties.items[j]).ok)
                       => /\ val_out.error = "Invalid property type in property"
                          /\ val_out.detail.index = i - 1
                          /\ val_out.detail.cause.detail.key = Get(prop, "key")

\* the required fields that are no key of the request or are null in it
MissingRequired ==
    {field \in Range(required_fields) :
        ~Has(val_data, field) \/ Get(val_data, field) = None}

\* C12: validation fails with one error that lists every required field that is
\* absent or null, all of them together and no field that is present, and this
\* error comes before any error about labels, properties or direction; a request
\* with no required field missing never gets this error.
C12_MissingFieldsTogether ==
    val_pc # "called" =>
        IF MissingRequired # {}
        THEN /\ val_pc = "raised"
             /\ val_out.error = "Missing required fields"
             /\ Range(val_out.detail) = MissingRequired
             /\ Len(val_out.detail) = Cardinality(MissingRequired)
        ELSE val_pc = "raised" => val_out.error # "Missing required fields"

\* two fields missing, one absent and one null, in a request whose direction is
\* not a direction as well
C12_Witness ==
    /\ val_pc = "raised"
    /\ Cardinality(MissingRequired) = 2
    /\ \E field \in MissingRequired : ~Has(val_data, field)
    /\ \E field \in MissingRequired : Has(val_data, field)
    /\ GetOr(val_data, "direction", None) = JStr("SIDEWAYS")
    /\ val_out.error = "Missing required fields"

-----------------------------------------------------------------------------
(* graph_server.py: execute_node_expansion, the query it synthesizes        *)

\* the truth value Python gives a value in `if value` / `not value`
truthy(value) ==
    CASE value.t = "null" -> FALSE
      [] value.t = "bool" -> value.b
      [] value.t = "int" -> value.n # 0
      [] value.t = "str" -> value.s # ""
      [] value.t = "list" -> value.items # <<>>
      [] value.t = "dict" -> value.pairs # {}
      [] OTHER -> TRUE

\* the text an f-string puts in for a value: str(value)
format(value) ==
    CASE value.t = "str" -> value.s
      [] value.t = "int" -> ToString(value.n)
      [] value.t = "bool" -> IF value.b THEN "True" ELSE "False"
      [] value.t = "float" -> value.f
      [] value.t = "null" -> "None"

\* a raised exception: its class, and what getattr(e, "message", str(e)) gives
Exception(class, message) == [t |-> "exception", class |-> class, message |-> message]

\* dict | dict: the right operand wins
DictUnion(left, right) ==
    JDict(right.pairs \cup {pr \in left.pairs : ~Has(right, pr[1])})

\* separator.join(strings), as the sequence of its pieces
join(separator, strings) ==
    [k \in 1..(IF strings = <<>> THEN 0 ELSE 2 * Len(strings) - 1) |->
        IF k % 2 = 1 THEN strings[(k + 1) \div 2] ELSE separator]

\* lines 187-192: the text n.<key>=<value_str>, as the sequence of its pieces
node_property_string(node_property) ==
    IF node_property.type_str \in {"INT64", "NUMERIC", "FLOAT32", "FLOAT64", "BOOL"}
    THEN <<"n.", format(node_property.key), "=", format(node_property.value)>>
    ELSE <<"n.", format(node_property.key), "=", "'''", format(node_property.value), "'''">>

\* lines 172-179 with the two patterns exchanged
path_pattern_reversed(direction, edge_label) ==
    LET edge == IF ~truthy(edge_label) THEN <<"e">> ELSE <<"e:", format(edge_label)>>
    IN  IF direction = "OUTGOING"
        THEN <<"(n)<-[">> \o edge \o <<"]-(d)">>
        ELSE <<"(n)-[">> \o edge \o <<"]->(d)">>

\* lines 172-179
path_pattern(direction, edge_label) ==
    LET edge == IF ~truthy(edge_label) THEN <<"e">> ELSE <<"e:", format(edge_label)>>
    IN  IF direction = "OUTGOING"
        THEN <<"(n)-[">> \o edge \o <<"]->(d)">>
        ELSE <<"(n)<-[">> \o edge \o <<"]-(d)">>

\* lines 181-183
node_label_str(node_labels) ==
    IF truthy(node_labels) /\ len(node_labels) > 0
    THEN <<": ">> \o join(" & ", [k \in DOMAIN node_labels.items |-> node_labels.items[k].s])
    ELSE <<>>

\* lines 194-205: the query text, kept as the parts put into the template;
\* words are the first words of the text (str.split)
Query(graph, uid, labels, node_property_strings, pattern) ==
    [t |-> "str", words |-> <<"GRAPH", format(graph), "LET", "uid", "=">>,
     graph |-> format(graph), uid |-> format(uid), node_label_str |-> labels,
     where |-> node_property_strings, path_pattern |-> pattern]

\* lines 161-206 with the query synthesized and run whether or not validation
\* accepted the request
node_expansion_call_unvalidated(params_str, request) ==
    IF ~isinstance(params_str, "str")
    THEN [raised |-> TRUE, exc |-> Exception("TypeError", "the JSON object must be str, bytes or bytearray")]
    ELSE IF ~JsonLoads(params_str.s).ok
    THEN [raised |-> TRUE, exc |-> Exception("JSONDecodeError", "Expecting value")]
    ELSE LET params == JsonLoads(params_str.s).value
         IN  IF ~isinstance(params, "dict") \/ ~isinstance(request, "dict")
             THEN [raised |-> TRUE, exc |-> Exception("TypeError", "unsupported operand type(s) for |")]
             ELSE [raised |-> FALSE,
                   project |-> GetOr(params, "project", None),
                   instance |-> GetOr(params, "instance", None),
                   database |-> GetOr(params, "database", None),
                   query |-> Query(GetOr(params, "graph", None), GetOr(request, "uid", None),
                                   <<>>, <<>>, path_pattern("OUTGOING", None)),
                   mock |-> JBool(FALSE)]

\* lines 161-206: the exception raised before execute_query is reached, or the
\* arguments execute_query is called with
node_expansion_call(params_str, request) ==
    IF ~isinstance(params_str, "str")
    THEN [raised |-> TRUE, exc |-> Exception("TypeError", "the JSON object must be str, bytes or bytearray")]
    ELSE IF ~JsonLoads(params_str.s).ok
    THEN [raised |-> TRUE, exc |-> Exception("JSONDecodeError", "Expecting value")]
    ELSE LET params == JsonLoads(params_str.s).value
         IN  IF ~isinstance(params, "dict") \/ ~isinstance(request, "dict")
             THEN [raised |-> TRUE, exc |-> Exception("TypeError", "unsupported operand type(s) for |")]
             ELSE LET validated == validate_node_expansion_request(DictUnion(params, request))
                  IN  IF ~validated.ok
                      THEN [raised |-> TRUE, exc |-> Exception("ValueError", validated)]
                      ELSE [raised |-> FALSE,
                            project |-> GetOr(params, "project", None),
                            instance |-> GetOr(params, "instance", None),
                            database |-> GetOr(params, "database", None),
                            query |-> Query(GetOr(params, "graph", None),
                                            GetOr(request, "uid", None),
                                            node_label_str(GetOr(request, "node_labels", None)),
                                            [k \in DOMAIN validated.validated_properties |->
                                                node_property_string(validated.validated_properties[k])],
                                            path_pattern(validated.direction,
                                                         GetOr(request, "edge_label", None))),
                            mock |-> JBool(FALSE)]

-----------------------------------------------------------------------------
(* database.py, cloud_database.py: the two database adapters                *)

\* database.py lines 29-40
SpannerQueryResult(data_, fields_, rows, schema, err) ==
    [t |-> "SpannerQueryResult", data |-> data_, fields |-> fields_, rows |-> rows,
     schema_json |-> schema, err |-> err]

DbReturned(self, result) == [raised |-> FALSE, self |-> self, result |-> result]
DbRaised(self, exc) == [raised |-> TRUE, self |-> self, exc |-> exc]

\* the values zip(fields, row) appends to data[name], for one row
RowValues(name, fields_, row) ==
    LET n == IF Len(fields_) < Len(row) THEN Len(fields_) ELSE Len(row)
        at == SelectSeq([k \in 1..n |-> k], LAMBDA k : fields_[k].name = name)
    IN  [j \in DOMAIN at |-> row[at[j]]]

\* data[name] after the loop over the rows
RECURSIVE ColumnValues(_, _, _)
ColumnValues(name, fields_, rows) ==
    IF rows = <<>> THEN <<>>
    ELSE RowValues(name, fields_, Head(rows)) \o ColumnValues(name, fields_, Tail(rows))

\* {field.name: [...] for field in fields}, each column filled from the rows
DataOf(fields_, rows) ==
    JDict({<<fields_[k].name, JList(ColumnValues(fields_[k].name, fields_, rows))>> :
              k \in DOMAIN fields_})

\* database.py lines 86-94: the cells of a row that parse, parsed
RECURSIVE parsed_row(_)
parsed_row(row) ==
    IF row = <<>> THEN <<>>
    ELSE IF JsonLoads(Head(row)).ok
         THEN <<JsonLoads(Head(row)).value>> \o parsed_row(Tail(row))
         ELSE parsed_row(Tail(row))

\* database.py lines 77-94: fields and rows read from the csv fixture
MockSpannerResult(csv) ==
    [fields |-> [k \in DOMAIN csv.headers |-> [name |-> csv.headers[k], typename |-> "JSON"]],
     rows |-> [k \in DOMAIN csv.rows |-> parsed_row(csv.rows[k])]]

\* database.py lines 102-108
MockSpannerDatabase == [t |-> "MockSpannerDatabase", schema_json |-> JDict({})]

\* the first n elements of a sequence (all of them if n is larger, none if n <= 0)
Take(seq, n) == SubSeq(seq, 1, IF n < 0 THEN 0 ELSE IF n < Len(seq) THEN n ELSE Len(seq))

\* database.py lines 110-147: MockSpannerDatabase.execute_query on the fixture files
Mock_execute_query(self, query, limit, fixture) ==
    IF fixture.schema = Absent
    THEN DbRaised(self, Exception("FileNotFoundError", "graph_mock_schema.json"))
    ELSE LET self1 == [self EXCEPT !.schema_json = fixture.schema]
         IN  IF fixture.csv.file = "missing"
             THEN DbRaised(self1, Exception("FileNotFoundError", "graph_mock_data.csv"))
             ELSE IF fixture.csv.file = "empty"
             THEN DbRaised(self1, Exception("StopIteration", ""))
             ELSE LET results == MockSpannerResult(fixture.csv)
                      fields_ == results.fields
                      rows == results.rows
                      limited == IF limit = None THEN rows ELSE Take(rows, limit.n)
                  IN  DbReturned(self1,
                          SpannerQueryResult(DataOf(fields_, limited), fields_, rows,
                                             self1.schema_json, None))

\* a query text, kept as its words (str.strip().split())
QueryText(words) == [t |-> "str", words |-> words]

\* cloud_database.py lines 41-48; serial is the identity of the object
CloudSpannerDatabase(project_id, instance_id, database_id, serial) ==
    [t |-> "CloudSpannerDatabase", project |-> project_id, instance |-> instance_id,
     database |-> database_id, schema_json |-> None, serial |-> serial]

\* an error of the Spanner client library; it carries a message attribute
BackendError == Exception("GoogleAPICallError", "backend failure")

\* cloud_database.py lines 56-64
_extract_graph_name(query) ==
    IF Len(query.words) < 3
    THEN [ok |-> FALSE, error |-> "invalid query: must contain at least (GRAPH, graph_name and query)"]
    ELSE IF upper(Chars(query.words[1])) # Chars("GRAPH")
    THEN [ok |-> FALSE, error |-> "invalid query: GRAPH must be the first word"]
    ELSE [ok |-> TRUE, graph_name |-> query.words[2]]

\* cloud_database.py lines 66-87: the schema document, None, or the exception
\* that leaves the method
_get_schema_for_graph(graph_query, backend) ==
    IF ~isinstance(graph_query, "str")
    THEN [raised |-> TRUE, exc |-> Exception("AttributeError", "object has no attribute 'strip'")]
    ELSE IF ~_extract_graph_name(graph_query).ok
    THEN [raised |-> FALSE, value |-> None]
    ELSE IF ~backend.catalog_snapshot \/ backend.catalog.fails
    THEN [raised |-> TRUE, exc |-> BackendError]
    ELSE LET graph_name == _extract_graph_name(graph_query).graph_name
             schema_rows == SelectSeq(backend.catalog.rows,
                                      LAMBDA row : row.property_graph_name = graph_name)
         IN  [raised |-> FALSE,
              value |-> IF schema_rows # <<>>
                        THEN schema_rows[1].property_graph_metadata_json
                        ELSE None]

\* cloud_database.py lines 142-145: a JsonObject is stored parsed from its text
JsonObject(text) == [t |-> "JsonObject", serialized |-> text]

cell_value(value) ==
    IF value.t = "JsonObject" THEN JsonLoads(value.serialized).value ELSE value

\* cloud_database.py lines 110-153: the snapshot, execute_sql, and the result
\* built from the rows with the schema document the object holds at that time
execute_sql_and_convert(self, query, backend) ==
    IF ~backend.query_snapshot THEN DbRaised(self, BackendError)
    ELSE IF backend.sql.fails \/ ~isinstance(query, "str")
    THEN DbReturned(self,
            SpannerQueryResult(JDict({}), <<>>, <<>>, self.schema_json, BackendError))
    ELSE LET fields_ == backend.sql.fields
             rows == backend.sql.rows
             values == [r \in DOMAIN rows |->
                          [k \in DOMAIN rows[r] |-> cell_value(rows[r][k])]]
         IN  DbReturned(self,
                 SpannerQueryResult(DataOf(fields_, values), fields_, rows,
                                    self.schema_json, None))

\* cloud_database.py lines 89-153: CloudSpannerDatabase.execute_query against a
\* backend that behaves as the record backend says
Cloud_execute_query(self, query, is_test_query, backend) ==
    LET self0 == [self EXCEPT !.schema_json = None]
        schema == IF is_test_query THEN [raised |-> FALSE, value |-> None]
                  ELSE _get_schema_for_graph(query, backend)
    IN  IF schema.raised THEN DbRaised(self0, schema.exc)
        ELSE LET self1 == [self0 EXCEPT !.schema_json = schema.value]
             IN  execute_sql_and_convert(self1, query, backend)

-----------------------------------------------------------------------------
(* exec_env.py: the instance cache; graph_server.py: execute_query          *)

\* the failure of CloudSpannerDatabase.__init__ (no default credentials)
ConstructionError == Exception("DefaultCredentialsError", "could not determine credentials")

\* exec_env.py line 31: f"{project}_{instance}_{database}", as its characters
cache_key(project, instance, database) ==
    Chars(format(project)) \o <<"_">> \o Chars(format(instance)) \o <<"_">>
        \o Chars(format(database))

\* exec_env.py lines 27-40: the adapter returned (or the exception of the
\* constructor), the cache and the number of cloud adapters constructed
get_database_instance(cache, made, project, instance, database, mock, ctor_ok) ==
    IF truthy(mock)
    THEN [raised |-> FALSE, cache |-> cache, made |-> made, db |-> MockSpannerDatabase]
    ELSE LET key == cache_key(project, instance, database)
         IN  IF \E entry \in cache : entry[1] = key
             THEN [raised |-> FALSE, cache |-> cache, made |-> made,
                   db |-> (CHOOSE entry \in cache : entry[1] = key)[2]]
             ELSE IF ~ctor_ok
             THEN [raised |-> TRUE, cache |-> cache, made |-> made, exc |-> ConstructionError]
             ELSE LET created == CloudSpannerDatabase(project, instance, database, made + 1)
                  IN  [raised |-> FALSE, cache |-> cache \cup {<<key, created>>},
                       made |-> made + 1, db |-> created]

\* the cache after a method call left the adapter db in state self: a cached
\* object is the same object, so its attributes change in the cache too
CacheWith(cache, adapter, self) ==
    {<<entry[1], IF entry[2] = adapter THEN self ELSE entry[2]>> : entry \in cache}

\* Node.to_json (graph_entities.py 164-172), Edge.to_json (262-270)
Node_to_json(node) ==
    JDict({<<"identifier", node.identifier>>, <<"labels", node.labels>>,
           <<"properties", node.properties>>,
           <<"key_property_names", node.key_property_names>>,
           <<"intermediate", JBool(node.intermediate)>>})

Edge_to_json(edge) ==
    JDict({<<"identifier", edge.identifier>>, <<"labels", edge.labels>>,
           <<"properties", edge.properties>>,
           <<"source_node_identifier", edge.source>>,
           <<"destination_node_identifier", edge.destination>>})

SchemaNote ==
    "We've detected an error in your query. To help you troubleshoot, the graph schema's layout is shown above.\n\n"

\* graph_server.py lines 238-257 with the partial response left out
query_error_response_error_only(result) ==
    JDict({<<"error", <<"Query error: \n", result.err.message>>>>})

\* graph_server.py lines 238-257: the answer to a failed query
query_error_response(result) ==
    LET error_message == <<"Query error: \n", result.err.message>>
    IN  JDict({<<"response",
                 JDict({<<"schema", result.schema_json>>, <<"query_result", result.data>>,
                        <<"nodes", JList(<<>>)>>, <<"edges", JList(<<>>)>>,
                        <<"rows", JList(<<>>)>>})>>,
               <<"error", IF truthy(result.schema_json)
                          THEN <<SchemaNote>> \o error_message
                          ELSE error_message>>})

\* graph_server.py lines 259-270: the answers a query that ran can get, one for
\* each order in which the set of missing identifiers can be iterated
query_responses(result) ==
    LET converted == get_nodes_edges(result.data, result.fields, result.schema_json)
    IN  IF converted.raised # "none"
        THEN {JDict({<<"error", converted.raised>>})}
        ELSE {JDict({<<"response",
                       JDict({<<"nodes",
                                JList([k \in DOMAIN converted.nodes |->
                                          Node_to_json(converted.nodes[k])]
                                      \o [k \in DOMAIN order |->
                                             Node_to_json(make_intermediate(order[k]))])>>,
                              <<"edges", JList([k \in DOMAIN converted.edges |->
                                                  Edge_to_json(converted.edges[k])])>>,
                              <<"schema", result.schema_json>>,
                              <<"rows", JList(result.rows)>>,
                              <<"query_result", result.data>>})>>}) :
                 order \in Orders(converted.missing)}

\* the state of the server process that execute_query reads and writes
ServerState(cache, made, log) == [cache |-> cache, made |-> made, log |-> log]

\* graph_server.py lines 234-272 with an empty response added to the answer
\* given for an exception
execute_query_response_kept(state, project, instance, database, query, mock, env) ==
    LET got == get_database_instance(state.cache, state.made, project, instance, database,
                                     mock, env.ctor_ok)
    IN  IF got.raised
        THEN [rets |-> {JDict({<<"response", JDict({})>>, <<"error", got.exc.message>>})},
              state |-> ServerState(got.cache, got.made, state.log)]
        ELSE LET ran == IF got.db.t = "MockSpannerDatabase"
                        THEN Mock_execute_query(got.db, query, JInt(5), env.fixture)
                        ELSE Cloud_execute_query(got.db, query, FALSE, env.backend)
                 after == ServerState(CacheWith(got.cache, got.db, ran.self), got.made,
                                      Append(state.log, [db |-> got.db, query |-> query, outcome |-> ran]))
             IN  IF ran.raised
                 THEN [rets |-> {JDict({<<"response", JDict({})>>,
                                        <<"error", ran.exc.message>>})}, state |-> after]
                 ELSE IF Len(ran.result.rows) = 0 /\ ran.result.err # None
                 THEN [rets |-> {query_error_response(ran.result)}, state |-> after]
                 ELSE [rets |-> query_responses(ran.result), state |-> after]

\* graph_server.py lines 234-272: the dicts that can be returned and the state
\* left behind.  env says how the surroundings behave during the call: whether
\* the adapter constructor succeeds, what the backend and the fixture files hold
execute_query(state, project, instance, database, query, mock, env) ==
    LET got == get_database_instance(state.cache, state.made, project, instance, database,
                                     mock, env.ctor_ok)
    IN  IF got.raised
        THEN [rets |-> {JDict({<<"error", got.exc.message>>})},
              state |-> ServerState(got.cache, got.made, state.log)]
        ELSE LET ran == IF got.db.t = "MockSpannerDatabase"
                        THEN Mock_execute_query(got.db, query, JInt(5), env.fixture)
                        ELSE Cloud_execute_query(got.db, query, FALSE, env.backend)
                 after == ServerState(CacheWith(got.cache, got.db, ran.self), got.made,
                                      Append(state.log, [db |-> got.db, query |-> query, outcome |-> ran]))
             IN  IF ran.raised
                 THEN [rets |-> {JDict({<<"error", ran.exc.message>>})}, state |-> after]
                 ELSE IF Len(ran.result.rows) = 0 /\ ran.result.err # None
                 THEN [rets |-> {query_error_response(ran.result)}, state |-> after]
                 ELSE [rets |-> query_responses(ran.result), state |-> after]

-----------------------------------------------------------------------------
(* graph_server.py: GraphServerHandler                                      *)

\* the text of a request body.  BodyText(value) is JSON text that json.loads
\* turns into value; Garbled is text that is not JSON
BodyText(value) == [t |-> "text", json |-> value]
Garbled == [t |-> "text", json |-> Absent]

HttpRequest(method, path, content_length, body) ==
    [method |-> method, path |-> path, content_length |-> content_length, body |-> body]

\* lines 280-285
endpoints ==
    [get_ping |-> "/get_ping", post_ping |-> "/post_ping", post_query |-> "/post_query",
     post_node_expansion |-> "/post_node_expansion"]

\* lines 350-356: the JSON document written with status 200
do_json_response(data_) == [kind |-> "json", status |-> 200, body |-> data_]

\* lines 358-359 with the message put in the envelope of the query answers
do_message_response_enveloped(message) ==
    do_json_response(JDict({<<"response", JDict({<<"message", JStr(message)>>})>>}))

\* lines 358-359
do_message_response(message) == do_json_response(JDict({<<"message", JStr(message)>>}))

\* the handler ended with an exception that nothing caught: no reply is written
Unhandled(exc) == [kind |-> "exception", exc |-> exc]
\* the handler returned without writing anything
NoReply == [kind |-> "none"]
\* http.server.SimpleHTTPRequestHandler.do_GET: a file or a 404 page
StaticReply == [kind |-> "file"]

\* lines 369-372: the parsed body, or the exception raised
parse_post_data(request) ==
    IF request.content_length = Absent
    THEN [raised |-> TRUE, exc |-> Exception("TypeError", "int() argument must be a string")]
    ELSE IF request.body.json = Absent
    THEN [raised |-> TRUE, exc |-> Exception("JSONDecodeError", "Expecting value")]
    ELSE [raised |-> FALSE, value |-> request.body.json]

\* container[key] for a str key: the value, or the exception raised
subscript(container, key) ==
    IF ~isinstance(container, "dict")
    THEN [raised |-> TRUE, exc |-> Exception("TypeError", "indices must be integers")]
    ELSE IF ~Has(container, key)
    THEN [raised |-> TRUE, exc |-> Exception("KeyError", key)]
    ELSE [raised |-> FALSE, value |-> Get(container, key)]

\* json.loads(value): the value, or the exception raised
json_loads(value) ==
    IF ~isinstance(value, "str")
    THEN [raised |-> TRUE, exc |-> Exception("TypeError", "the JSON object must be str, bytes or bytearray")]
    ELSE IF ~JsonLoads(value.s).ok
    THEN [raised |-> TRUE, exc |-> Exception("JSONDecodeError", "Expecting value")]
    ELSE [raised |-> FALSE, value |-> JsonLoads(value.s).value]

\* lines 382-390: the arguments handle_post_query calls execute_query with, or
\* the exception raised on the way
post_query_call(request) ==
    LET data_ == parse_post_data(request)
    IN  IF data_.raised THEN data_
        ELSE IF subscript(data_.value, "params").raised THEN subscript(data_.value, "params")
        ELSE LET params == json_loads(subscript(data_.value, "params").value)
             IN  IF params.raised THEN params
                 ELSE LET first_missing ==
                              SelectSeq(<<"project", "instance", "database">>,
                                        LAMBDA key : subscript(params.value, key).raised)
                      IN  IF first_missing # <<>>
                          THEN subscript(params.value, first_missing[1])
                          ELSE IF subscript(data_.value, "query").raised
                          THEN subscript(data_.value, "query")
                          ELSE IF subscript(params.value, "mock").raised
                          THEN subscript(params.value, "mock")
                          ELSE [raised |-> FALSE,
                                project |-> Get(params.value, "project"),
                                instance |-> Get(params.value, "instance"),
                                database |-> Get(params.value, "database"),
                                query |-> Get(data_.value, "query"),
                                mock |-> Get(params.value, "mock")]

\* lines 400-409: the arguments execute_node_expansion calls execute_query
\* with, or the exception raised on the way
post_node_expansion_call(request) ==
    LET data_ == parse_post_data(request)
    IN  IF data_.raised THEN data_
        ELSE IF ~isinstance(data_.value, "dict")
        THEN [raised |-> TRUE, exc |-> Exception("AttributeError", "object has no attribute 'get'")]
        ELSE node_expansion_call(GetOr(data_.value, "params", None),
                                 GetOr(data_.value, "request", None))

-----------------------------------------------------------------------------
(* The surroundings of the server: backends, fixture files, requests        *)

MaxRequests == 2

NodeCText ==
    "{\"kind\": \"node\", \"identifier\": \"c\", \"labels\": [\"Person\"], \"properties\": {\"id\": \"3\"}}"

GraphSchema == SchemaOf(<<NodeTable("Person", <<JStr("Person")>>, <<JStr("id")>>)>>)

\* information_schema.property_graphs
Catalog == <<[property_graph_name |-> "g", property_graph_metadata_json |-> GraphSchema]>>

Catalog0 == [fails |-> FALSE, rows |-> <<>>]
CatalogG == [fails |-> FALSE, rows |-> Catalog]
CatalogFails == [fails |-> TRUE, rows |-> <<>>]

\* what snapshot.execute_sql(query) does: fails, or gives fields and rows
Sql(fields_, rows) == [fails |-> FALSE, fields |-> fields_, rows |-> rows]
SqlFails == [fails |-> TRUE, fields |-> <<>>, rows |-> <<>>]
SqlNode == Sql(<<[name |-> "n", typename |-> "JSON"]>>, <<<<JsonObject(NodeCText)>>>>)
SqlEdge == Sql(<<[name |-> "e", typename |-> "ARRAY"]>>, <<<<JList(<<EdgeAB>>)>>>>)
SqlEmpty == Sql(<<>>, <<>>)

Backend(catalog_snapshot, catalog, query_snapshot, sql) ==
    [catalog_snapshot |-> catalog_snapshot, catalog |-> catalog,
     query_snapshot |-> query_snapshot, sql |-> sql]

Backends ==
    {Backend(TRUE, CatalogG, TRUE, SqlNode), Backend(TRUE, CatalogG, TRUE, SqlEdge),
     Backend(TRUE, Catalog0, TRUE, SqlEmpty), Backend(TRUE, CatalogG, TRUE, SqlFails),
     Backend(TRUE, Catalog0, TRUE, SqlFails), Backend(TRUE, CatalogFails, TRUE, SqlNode),
     Backend(FALSE, CatalogG, TRUE, SqlNode), Backend(TRUE, CatalogG, FALSE, SqlNode)}

\* the two fixture files: the schema document (Absent: no such file) and the csv
\* file (missing, empty, or a header line and rows of cells)
Fixture(schema, csv) == [schema |-> schema, csv |-> csv]
Csv(headers, rows) == [file |-> "present", headers |-> headers, rows |-> rows]
NoCsv(file) == [file |-> file, headers |-> <<>>, rows |-> <<>>]

FixtureOk == Fixture(GraphSchema, Csv(<<"n">>, <<<<NodeCText>>>>))

Fixtures == {FixtureOk, Fixture(Absent, NoCsv("missing")), Fixture(GraphSchema, NoCsv("empty"))}

ServerEnvs ==
    {[ctor_ok |-> ok, backend |-> backend, fixture |-> FixtureOk] :
        ok \in BOOLEAN, backend \in Backends}
    \cup {[ctor_ok |-> TRUE, backend |-> Backend(TRUE, CatalogG, TRUE, SqlNode),
           fixture |-> fixture] : fixture \in Fixtures}

\* connection params, as the JSON texts requests carry
ParamsNoMock ==
    "{\"project\": \"p\", \"instance\": \"i\", \"database\": \"d\", \"graph\": \"g\"}"
ParamsMock ==
    "{\"project\": \"p\", \"instance\": \"i\", \"database\": \"d\", \"graph\": \"g\", \"mock\": true}"
ParamsCloud ==
    "{\"project\": \"p\", \"instance\": \"i\", \"database\": \"d\", \"graph\": \"g\", \"mock\": false}"
ParamsNoGraph ==
    "{\"project\": \"p\", \"instance\": \"i\", \"database\": \"d\"}"
ParamsNoProject ==
    "{\"instance\": \"i\", \"database\": \"d\", \"graph\": \"g\"}"
ParamsNullProject ==
    "{\"project\": null, \"instance\": \"i\", \"database\": \"d\", \"graph\": \"g\"}"
ParamsAB_C ==
    "{\"project\": \"a_b\", \"instance\": \"c\", \"database\": \"d\", \"graph\": \"g\", \"mock\": false}"
ParamsA_BC ==
    "{\"project\": \"a\", \"instance\": \"b_c\", \"database\": \"d\", \"graph\": \"g\", \"mock\": false}"
ParamsNoDatabase ==
    "{\"project\": \"p\", \"instance\": \"i\", \"graph\": \"g\", \"mock\": false}"
ParamsWithRequestFields ==
    "{\"project\": \"p\", \"instance\": \"i\", \"database\": \"d\", \"graph\": \"g\", \"node_labels\": [\"Person\"], \"uid\": \"u2\", \"direction\": \"INCOMING\"}"
ParamsList ==
    "[\"p\", \"i\", \"d\"]"
GraphQuery == QueryText(<<"GRAPH", "g", "MATCH", "(n)", "RETURN", "n">>)
SelectQuery == QueryText(<<"SELECT", "1">>)

ExpandRequest ==
    JDict({<<"uid", JStr("u1")>>, <<"node_labels", JList(<<JStr("Person")>>)>>,
           <<"direction", JStr("OUTGOING")>>})

Post(path, value) == HttpRequest("POST", path, JInt(1), BodyText(value))

QueryBodies ==
    {JDict({<<"params", JStr(params)>>, <<"query", query>>}) :
        params \in {ParamsMock, ParamsCloud, ParamsAB_C, ParamsA_BC},
        query \in {GraphQuery}}
    \cup {JDict({<<"params", JStr(ParamsCloud)>>, <<"query", SelectQuery>>}),
          JDict({<<"params", JStr(ParamsCloud)>>, <<"query", JInt(1)>>}),
          JDict({<<"params", JStr(ParamsNoMock)>>, <<"query", GraphQuery>>}),
          JDict({<<"params", JStr(ParamsNoDatabase)>>, <<"query", GraphQuery>>}),
          JDict({<<"params", JStr(ParamsList)>>, <<"query", GraphQuery>>}),
          JDict({<<"params", JStr("{\"project\": ")>>, <<"query", GraphQuery>>}),
          JDict({<<"params", JInt(7)>>, <<"query", GraphQuery>>}),
          JDict({<<"params", JStr(ParamsCloud)>>}),
          JDict({<<"query", GraphQuery>>}),
          JList(<<JStr(ParamsCloud)>>)}

ExpansionBodies ==
    {JDict({<<"params", JStr(ParamsNoMock)>>, <<"request", ExpandRequest>>}),
     JDict({<<"params", JStr(ParamsAB_C)>>, <<"request", ExpandRequest>>}),
     JDict({<<"params", JStr(ParamsNoMock)>>,
            <<"request", JDict({<<"uid", JStr("u1")>>,
                                <<"direction", JStr("SIDEWAYS")>>})>>}),
     JDict({<<"params", JStr(ParamsNoMock)>>}),
     JDict({<<"request", ExpandRequest>>}),
     JList(<<>>)}

ServerRequests ==
    {HttpRequest("GET", endpoints.get_ping, Absent, Garbled),
     HttpRequest("GET", "/index.html", Absent, Garbled),
     Post(endpoints.post_ping, JDict({<<"data", JStr("ping")>>})),
     HttpRequest("POST", endpoints.post_ping, JInt(1), Garbled),
     HttpRequest("POST", endpoints.post_ping, Absent, Garbled),
     HttpRequest("POST", endpoints.post_query, JInt(1), Garbled),
     HttpRequest("POST", endpoints.post_node_expansion, JInt(1), Garbled),
     Post("/post_unknown", JDict({}))}
    \cup {Post(endpoints.post_query, body) : body \in QueryBodies}
    \cup {Post(endpoints.post_node_expansion, body) : body \in ExpansionBodies}

-----------------------------------------------------------------------------
(* The Query Server: requests handled one after the other                   *)

ServerInit ==
    /\ database_instances = {} /\ cloud_made = 0 /\ backend_log = <<>>
    /\ http_request = None /\ http_reply = None /\ srv_pc = "idle" /\ srv_n = 0
    /\ DbIdle /\ LifeIdle /\ CallIdle /\ ConvIdle /\ SmIdle /\ ValIdle

Receive ==
    /\ srv_pc \in {"idle", "replied"}
    /\ srv_n < MaxRequests
    /\ http_request' \in ServerRequests
    /\ http_reply' = None
    /\ backend_log' = <<>>
    /\ srv_pc' = "received"
    /\ srv_n' = srv_n + 1
    /\ UNCHANGED <<database_instances, cloud_made, dbVars, lifeVars, callVars, convVars,
                   smVars, valVars>>

Reply(reply) ==
    /\ http_reply' = reply
    /\ srv_pc' = "replied"
    /\ UNCHANGED <<http_request, srv_n, dbVars, lifeVars, callVars, convVars, smVars, valVars>>

\* execute_query called with the arguments of call; its answer is sent
RunQuery(call) ==
    \E env \in ServerEnvs :
       \E out \in {execute_query(ServerState(database_instances, cloud_made, backend_log),
                                 call.project, call.instance, call.database, call.query,
                                 call.mock, env)} :
           /\ database_instances' = out.state.cache
           /\ cloud_made' = out.state.made
           /\ backend_log' = out.state.log
           /\ \E ret \in out.rets : Reply(do_json_response(ret))

\* lines 414-418, 374-375
HandleGet ==
    /\ srv_pc = "received" /\ http_request.method = "GET"
    /\ IF http_request.path = endpoints.get_ping
       THEN Reply(do_message_response("pong"))
       ELSE Reply(StaticReply)
    /\ UNCHANGED <<database_instances, cloud_made, backend_log>>

\* lines 377-379
HandlePostPing ==
    /\ srv_pc = "received" /\ http_request.method = "POST"
    /\ http_request.path = endpoints.post_ping
    /\ \E data_ \in {parse_post_data(http_request)} :
           IF data_.raised THEN Reply(Unhandled(data_.exc))
           ELSE Reply(do_json_response(JDict({<<"your_request", data_.value>>})))
    /\ UNCHANGED <<database_instances, cloud_made, backend_log>>

\* lines 381-391
HandlePostQuery ==
    /\ srv_pc = "received" /\ http_request.method = "POST"
    /\ http_request.path = endpoints.post_query
    /\ \E call \in {post_query_call(http_request)} :
           IF call.raised
           THEN /\ Reply(Unhandled(call.exc))
                /\ UNCHANGED <<database_instances, cloud_made, backend_log>>
           ELSE RunQuery(call)

\* lines 393-412, 148-207
HandlePostNodeExpansion ==
    /\ srv_pc = "received" /\ http_request.method = "POST"
    /\ http_request.path = endpoints.post_node_expansion
    /\ \E call \in {post_node_expansion_call(http_request)} :
           IF call.raised
           THEN /\ Reply(do_json_response(JDict({<<"error", call.exc.message>>})))
                /\ UNCHANGED <<database_instances, cloud_made, backend_log>>
           ELSE RunQuery(call)

\* lines 420-426: no branch of do_POST takes the path
HandlePostOther ==
    /\ srv_pc = "received" /\ http_request.method = "POST"
    /\ http_request.path \notin {endpoints.post_ping, endpoints.post_query,
                                 endpoints.post_node_expansion}
    /\ Reply(NoReply)
    /\ UNCHANGED <<database_instances, cloud_made, backend_log>>

ServerNext ==
    \/ Receive
    \/ HandleGet
    \/ HandlePostPing
    \/ HandlePostQuery
    \/ HandlePostNodeExpansion
    \/ HandlePostOther

SpecServer == ServerInit /\ [][ServerNext]_vars

-----------------------------------------------------------------------------
(* expandNode requests: one request, handled by handle_post_node_expansion  *)

ExpandTypes ==
    {JStr("INT64"), JStr("int64"), JStr("FLOAT64"), JStr("BOOL"), JStr("Bool"),
     JStr("STRING"), JStr("string"), JStr("DATE"), JStr("ARRAY")}

ExpandValues == {JInt(5), JStr("123"), JBool(TRUE), JStr("abc")}

ExpandProperties ==
    {Property(k, v, ty) : k \in PropKeys, v \in ExpandValues, ty \in ExpandTypes}

ExpandParams ==
    {ParamsNoMock, ParamsNoGraph, ParamsNoProject, ParamsNullProject, ParamsWithRequestFields}

EdgeLabels == {Absent, None, JStr(""), JStr("KNOWS"), JInt(5)}

ExpandLabels ==
    {Absent, None, JList(<<>>), JList(<<JStr("Person")>>),
     JList(<<JStr("Person"), JStr("Account")>>)}

\* the dict with the given values; a field given Absent is not a key of it
DictOf(pairs) == JDict({pr \in pairs : pr[2] # Absent})

ExpandInit ==
    /\ \/ \E n \in 0..MaxProps : \E props \in [1..n -> ExpandProperties] :
             http_request =
                Post(endpoints.post_node_expansion,
                     JDict({<<"params", JStr(ParamsNoMock)>>,
                            <<"request", DictUnion(ExpandRequest,
                                            JDict({<<"node_properties", JList(props)>>}))>>}))
       \/ \E params \in ExpandParams, direction \in FieldValues("direction"),
             edge_label \in EdgeLabels, node_labels \in ExpandLabels,
             uid \in {Absent, JStr("u1")}, project \in {Absent, JStr("p")} :
             http_request =
                Post(endpoints.post_node_expansion,
                     JDict({<<"params", JStr(params)>>,
                            <<"request", DictOf({<<"uid", uid>>, <<"project", project>>,
                                                 <<"node_labels", node_labels>>,
                                                 <<"direction", direction>>,
                                                 <<"edge_label", edge_label>>})>>}))
    /\ database_instances = {} /\ cloud_made = 0 /\ backend_log = <<>>
    /\ http_reply = None /\ srv_pc = "received" /\ srv_n = 1
    /\ DbIdle /\ LifeIdle /\ CallIdle /\ ConvIdle /\ SmIdle /\ ValIdle

ExpandNext == HandlePostNodeExpansion

SpecExpand == ExpandInit /\ [][ExpandNext]_vars

-----------------------------------------------------------------------------
(* Claims about execute_node_expansion                                      *)

\* the request of the expandNode call being handled, and what became of it
ExpandCall == post_node_expansion_call(http_request)
ExpandProps ==
    GetOr(GetOr(http_request.body.json, "request", JDict({})), "node_properties", JList(<<>>)).items

\* the execute_query call of the request reached a backend adapter
QueryIssued == srv_pc = "replied" /\ backend_log # <<>>
IssuedQuery == backend_log[Len(backend_log)].query

UnquotedTypes == {"INT64", "NUMERIC", "FLOAT32", "FLOAT64", "BOOL"}

\* C11: in the synthesized query every validated property constraint appears in
\* the WHERE clause as n.<key>=<value>, the value unquoted when its type is, in
\* any letter case, INT64, NUMERIC, FLOAT32, FLOAT64 or BOOL, and wrapped in
\* triple quotes for every other allowed type.
C11_ValueQuotedByType ==
    QueryIssued =>
        /\ Len(IssuedQuery.where) = Len(ExpandProps)
        /\ \A k \in DOMAIN ExpandProps :
              LET prop == ExpandProps[k]
                  key == format(Get(prop, "key"))
                  value == format(Get(prop, "value"))
              IN  IssuedQuery.where[k] =
                     IF TypeIs(prop, UnquotedTypes)
                     THEN <<"n.", key, "=", value>>
                     ELSE <<"n.", key, "=", "'''", value, "'''">>

\* the request dict and the connection params of the expandNode call, and the
\* dict validation examines
ExpandRequestDict == GetOr(http_request.body.json, "request", None)
ExpandParamsDict == JsonLoads(GetOr(http_request.body.json, "params", None).s).value
ExpandMerged == DictUnion(ExpandParamsDict, ExpandRequestDict)

\* validation gets as far as the direction
ReachesDirection ==
    /\ isinstance(ExpandRequestDict, "dict") /\ isinstance(ExpandParamsDict, "dict")
    /\ \A field \in Range(required_fields) : GetOr(ExpandMerged, field, None) # None
    /\ isinstance(Get(ExpandMerged, "node_labels"), "list")
    /\ \A label \in Range(Get(ExpandMerged, "node_labels").items) : isinstance(label, "str")
    /\ \A k \in DOMAIN ExpandProps : validate_property(k - 1, ExpandProps[k]).ok

\* C13: a direction is accepted only if it is exactly "INCOMING" or "OUTGOING",
\* any other value fails with the invalid-direction error; the traversal pattern
\* is (n)-[e]->(d) for OUTGOING and (n)<-[e]-(d) for INCOMING, where e is
\* e:<edge_label> exactly when the request supplies a non-empty edge label.
C13_DirectionAndPattern ==
    (srv_pc = "replied" /\ ReachesDirection) =>
        LET direction == Get(ExpandMerged, "direction")
            edge_label == GetOr(ExpandRequestDict, "edge_label", None)
            e == IF edge_label \in {None, JStr("")} THEN <<"e">>
                 ELSE <<"e:", format(edge_label)>>
        IN  IF direction \in {JStr("INCOMING"), JStr("OUTGOING")}
            THEN /\ ~ExpandCall.raised
                 /\ ExpandCall.query.path_pattern =
                       IF direction = JStr("OUTGOING")
                       THEN <<"(n)-[">> \o e \o <<"]->(d)">>
                       ELSE <<"(n)<-[">> \o e \o <<"]-(d)">>
                 /\ QueryIssued => IssuedQuery = ExpandCall.query
            ELSE /\ ExpandCall.raised
                 /\ ExpandCall.exc.message.error = "Invalid direction: must be INCOMING or OUTGOING"
                 /\ http_reply = do_json_response(JDict({<<"error", ExpandCall.exc.message>>}))
                 /\ backend_log = <<>>

\* an INCOMING expansion along KNOWS edges reached the backend
C13_Witness ==
    /\ QueryIssued
    /\ Get(ExpandMerged, "direction") = JStr("INCOMING")
    /\ GetOr(ExpandRequestDict, "edge_label", None) = JStr("KNOWS")
    /\ IssuedQuery.path_pattern = <<"(n)<-[", "e:", "KNOWS", "]-(d)">>

-----------------------------------------------------------------------------
(* Claims about execute_query and the Query Server                          *)

\* the request being handled is a runQuery whose adapter returned a result
IsRunQuery == http_request # None /\ http_request.path = endpoints.post_query
AdapterReturned ==
    srv_pc = "replied" /\ backend_log # <<>> /\ ~backend_log[1].outcome.raised
AdapterResult == backend_log[1].outcome.result

\* C14: when the adapter result of a runQuery has an error and zero rows, the
\* answer has both keys: response with schema, query_result and empty nodes,
\* edges and rows, and a non-empty error message that begins with the note that
\* the schema is available iff the schema document of the result is non-empty.
\* When the result has no error the answer has a response with nodes, edges,
\* schema, rows and query_result, and no error key.
C14_ErrorWithPartialResponse ==
    (IsRunQuery /\ AdapterReturned) =>
        LET result == AdapterResult
            answer == http_reply.body
        IN  /\ http_reply.kind = "json"
            /\ (result.err # None /\ result.rows = <<>>) =>
                  /\ Keys(answer) = {"response", "error"}
                  /\ Get(answer, "response") =
                        JDict({<<"schema", result.schema_json>>,
                               <<"query_result", result.data>>,
                               <<"nodes", JList(<<>>)>>, <<"edges", JList(<<>>)>>,
                               <<"rows", JList(<<>>)>>})
                  /\ Get(answer, "error") # <<>>
                  /\ Head(Get(answer, "error")) = SchemaNote
                        <=> result.schema_json \notin {None, JDict({})}
            /\ result.err = None =>
                  /\ Keys(answer) = {"response"}
                  /\ Keys(Get(answer, "response"))
                        = {"nodes", "edges", "schema", "rows", "query_result"}

\* a failed query for which the catalog had the schema of the graph
C14_Witness ==
    /\ IsRunQuery /\ AdapterReturned
    /\ AdapterResult.err # None /\ AdapterResult.rows = <<>>
    /\ AdapterResult.schema_json = GraphSchema
    /\ Head(Get(http_reply.body, "error")) = SchemaNote
    /\ Has(http_reply.body, "response")

\* the runQuery request being handled got as far as calling execute_query
ExecuteQueryCalled ==
    IsRunQuery /\ srv_pc = "replied" /\ ~post_query_call(http_request).raised

\* C15: execute_query never raises on the runQuery path: an exception raised
\* while the adapter is obtained from the instance cache, while the query is
\* executed or while the result is converted becomes a returned object with an
\* error key and no response key.
C15_ExceptionsBecomeErrors ==
    ExecuteQueryCalled =>
        /\ http_reply.kind = "json"
        /\ (backend_log = <<>> \/ backend_log[1].outcome.raised)
              => Keys(http_reply.body) = {"error"}
        /\ (AdapterReturned /\ get_nodes_edges(AdapterResult.data, AdapterResult.fields,
                                               AdapterResult.schema_json).raised # "none")
              => Keys(http_reply.body) = {"error"}

\* the exception of the schema lookup left the cloud adapter, and the answer is
\* the error alone
C15_Witness ==
    /\ ExecuteQueryCalled
    /\ backend_log # <<>>
    /\ backend_log[1].db.t = "CloudSpannerDatabase"
    /\ backend_log[1].outcome.raised
    /\ http_reply = do_json_response(JDict({<<"error", BackendError.message>>}))

\* C16: every POST, to the echo, runQuery and expandNode routes with any body
\* and to any other path, is answered with a JSON response: the handler neither
\* ends with an unhandled exception nor returns without a reply.
C16_EveryPostAnswered ==
    (srv_pc = "replied" /\ http_request.method = "POST") => http_reply.kind = "json"

IsJsonReply == srv_pc = "replied" /\ http_reply.kind = "json"
Enveloped(body) == Keys(body) \in {{"response"}, {"response", "error"}, {"error"}}

\* C17 as stated: every response body sent by ping, echo, runQuery and
\* expandNode has a response key or an error key at its top level.
C17_UniformEnvelope == IsJsonReply => Enveloped(http_reply.body)

\* C17, amended: the bodies sent by runQuery and expandNode have a response key
\* (with an optional error beside it) or an error key alone; ping answers
\* {message: "pong"} and echo answers {your_request: <the request body>}, which
\* have neither key.
C17_EnvelopeOfQueryRoutes ==
    IsJsonReply =>
        CASE http_request.method = "GET" ->
                 http_reply.body = JDict({<<"message", JStr("pong")>>})
          [] http_request.path = endpoints.post_ping ->
                 http_reply.body = JDict({<<"your_request", http_request.body.json>>})
          [] OTHER -> Enveloped(http_reply.body)

\* ping was answered
C17_Witness ==
    /\ IsJsonReply
    /\ http_request.method = "GET"
    /\ http_request.path = endpoints.get_ping
    /\ ~Enveloped(http_reply.body)

\* the request being handled called execute_query of a cloud adapter with a
\* query text
CloudQueried ==
    /\ srv_pc = "replied"
    /\ backend_log # <<>>
    /\ backend_log[1].db.t = "CloudSpannerDatabase"
    /\ backend_log[1].query.t = "str"

\* C18: CloudSpannerDatabase.execute_query never raises: a backend failure
\* while a snapshot is opened, during the schema-catalog lookup of a graph
\* query, or while the query is executed and its rows are read, is returned as
\* a result whose err is set and whose rows and fields are empty.
C18_CloudNeverRaises ==
    CloudQueried =>
        /\ ~backend_log[1].outcome.raised
        /\ backend_log[1].outcome.result.err # None =>
              /\ backend_log[1].outcome.result.rows = <<>>
              /\ backend_log[1].outcome.result.fields = <<>>

\* the arguments with which the request being handled called execute_query
RequestCall ==
    IF http_request.path = endpoints.post_query
    THEN post_query_call(http_request)
    ELSE post_node_expansion_call(http_request)

\* the request being handled got a cloud adapter from get_database_instance
CloudAdapterObtained ==
    /\ srv_pc = "replied"
    /\ backend_log # <<>>
    /\ backend_log[1].db.t = "CloudSpannerDatabase"

\* the adapters in the cache that were constructed for the triple
CachedFor(project, instance, database) ==
    {entry \in database_instances :
        /\ entry[2].project = project
        /\ entry[2].instance = instance
        /\ entry[2].database = database}

\* C19: the instance cache holds exactly one adapter for each distinct
\* (project, instance, database) triple requested with mock = false so far,
\* and a request gets the adapter of its own triple: after a request without
\* mock got its adapter, the cache holds one adapter constructed for the
\* triple of that request, and that adapter is the one the request used.
C19_OneAdapterPerTriple ==
    CloudAdapterObtained =>
        LET call == RequestCall
        IN  /\ Cardinality(CachedFor(call.project, call.instance, call.database)) = 1
            /\ backend_log[1].db.project = call.project
            /\ backend_log[1].db.instance = call.instance
            /\ backend_log[1].db.database = call.database

-----------------------------------------------------------------------------
(* The mock adapter on its fixture files                                    *)

MaxMockRows == 2

\* lines of graph_mock_data.csv: a node, a number, and lines with a cell that
\* is not JSON
MockCsvRows == {<<NodeCText>>, <<"7">>, <<"not json", "7">>, <<NodeCText, "7">>}
MockHeaders == {<<>>, <<"n">>, <<"n", "m">>}
MockLimits == {None, JInt(5)} \cup {JInt(n) : n \in 0..MaxMockRows}
MockQueries == {GraphQuery, SelectQuery}

MockInit ==
    /\ db = MockSpannerDatabase /\ db_call = None /\ db_out = None
    /\ SrvIdle /\ LifeIdle /\ CallIdle /\ ConvIdle /\ SmIdle /\ ValIdle

\* database.py lines 110-147: execute_query(query, limit) on the adapter, with
\* the fixture files as they are when the call is made
MockExecuteQuery ==
    /\ db_call = None
    /\ \E query \in MockQueries, limit \in MockLimits :
          \E fixture \in Fixtures
                         \cup {Fixture(GraphSchema, Csv(headers, rows)) :
                                  headers \in MockHeaders,
                                  rows \in UNION {[1..n -> MockCsvRows] : n \in 0..MaxMockRows}} :
             LET out == Mock_execute_query(db, query, limit, fixture)
             IN  /\ db_call' = [query |-> query, limit |-> limit, fixture |-> fixture]
                 /\ db_out' = out
                 /\ db' = out.self
    /\ UNCHANGED <<srvVars, lifeVars, callVars, convVars, smVars, valVars>>

MockNext == MockExecuteQuery

SpecMock == MockInit /\ [][MockNext]_vars

-----------------------------------------------------------------------------
(* Claims about the mock adapter                                            *)

MockReturned == db_call # None /\ ~db_out.raised

\* C20: the mock adapter's execute_query ignores the query text (any two query
\* texts give equal results) and truncates its output to the row limit L: the
\* result holds at most L rows (len(rows) <= L) and every column of data has at
\* most L values.
C20_MockTruncatesToLimit ==
    MockReturned =>
        /\ \A query \in MockQueries :
              Mock_execute_query(MockSpannerDatabase, query, db_call.limit,
                                 db_call.fixture).result = db_out.result
        /\ db_call.limit # None =>
              /\ Len(db_out.result.rows) <= db_call.limit.n
              /\ \A pr \in db_out.result.data.pairs : Len(pr[2].items) <= db_call.limit.n

-----------------------------------------------------------------------------
(* GraphServer.init, start_server, stop_server: the listener's life cycle.  *)
(* socketserver.BaseServer keeps a flag __shutdown_request and an event     *)
(* __is_shut_down; serve_forever handles one request at a time in the       *)
(* server thread (the listener class derives from socketserver.TCPServer).  *)

MaxStarts == 2
MaxStops == 2
MaxConnections == 2

\* socketserver.BaseServer.__init__, TCPServer.__init__: bound and listening
NewListener ==
    [open |-> TRUE, shutdown_request |-> FALSE, is_shut_down |-> FALSE, handling |-> 0]

\* BaseServer.shutdown returns at once, whatever the server thread is doing
shutdown_returns_at_once(listener) == TRUE

\* line 315, BaseServer.shutdown: self.__is_shut_down.wait() returns
shutdown_returns(listener) == listener.is_shut_down

ServerThreads == DOMAIN server_threads
Serving(t) == server_threads[t].pc = "serving"
ListenerOf(t) == listeners[server_threads[t].httpd]
PortInUse == \E l \in DOMAIN listeners : listeners[l].open

LifeInit ==
    /\ _server = 0 /\ listeners = <<>> /\ server_threads = <<>> /\ connections = <<>>
    /\ stop_call = [pc |-> "idle", found |-> 0, threads_seen |-> 0, stops |-> 0]
    /\ SrvIdle /\ DbIdle /\ CallIdle /\ ConvIdle /\ SmIdle /\ ValIdle

LifeUnchanged == UNCHANGED <<srvVars, dbVars, callVars, convVars, smVars, valVars>>

\* lines 307-310: init() starts a thread that runs start_server
InitServer ==
    /\ stop_call.pc = "idle"
    /\ Len(server_threads) < MaxStarts
    /\ server_threads' = Append(server_threads, [pc |-> "start", httpd |-> 0])
    /\ UNCHANGED <<_server, listeners, stop_call, connections>>
    /\ LifeUnchanged

\* line 301: the listener is constructed; binding the port raises OSError while
\* another listener still holds it
Construct(t) ==
    /\ server_threads[t].pc = "start"
    /\ IF PortInUse
       THEN /\ server_threads' = [server_threads EXCEPT ![t].pc = "raised"]
            /\ UNCHANGED listeners
       ELSE /\ listeners' = Append(listeners, NewListener)
            /\ server_threads' = [server_threads EXCEPT ![t] =
                                     [pc |-> "with", httpd |-> Len(listeners) + 1]]
    /\ UNCHANGED <<_server, stop_call, connections>>
    /\ LifeUnchanged

\* line 302: GraphServer._server = httpd
Publish(t) ==
    /\ server_threads[t].pc = "with"
    /\ _server' = server_threads[t].httpd
    /\ server_threads' = [server_threads EXCEPT ![t].pc = "published"]
    /\ UNCHANGED <<listeners, stop_call, connections>>
    /\ LifeUnchanged

\* line 304: serve_forever begins with self.__is_shut_down.clear()
ServeForever(t) ==
    /\ server_threads[t].pc = "published"
    /\ listeners' = [listeners EXCEPT ![server_threads[t].httpd].is_shut_down = FALSE]
    /\ server_threads' = [server_threads EXCEPT ![t].pc = "serving"]
    /\ UNCHANGED <<_server, stop_call, connections>>
    /\ LifeUnchanged

\* the loop of serve_forever takes a pending request and calls its handler, in
\* the server thread itself
HandleRequest(t) ==
    /\ Serving(t)
    /\ ~ListenerOf(t).shutdown_request
    /\ ListenerOf(t).handling = 0
    /\ \E c \in DOMAIN connections :
          /\ connections[c] = "pending"
          /\ \A earlier \in 1..(c - 1) : connections[earlier] # "pending"
          /\ connections' = [connections EXCEPT ![c] = "handling"]
          /\ listeners' = [listeners EXCEPT ![server_threads[t].httpd].handling = c]
    /\ UNCHANGED <<_server, server_threads, stop_call>>
    /\ LifeUnchanged

\* the handler returns: its request is answered and the loop goes on
FinishRequest(t) ==
    /\ Serving(t)
    /\ ListenerOf(t).handling # 0
    /\ connections' = [connections EXCEPT ![ListenerOf(t).handling] = "answered"]
    /\ listeners' = [listeners EXCEPT ![server_threads[t].httpd].handling = 0]
    /\ UNCHANGED <<_server, server_threads, stop_call>>
    /\ LifeUnchanged

\* the loop of serve_forever sees __shutdown_request; its finally clause resets
\* the flag and sets the event
LeaveLoop(t) ==
    /\ Serving(t)
    /\ ListenerOf(t).handling = 0
    /\ ListenerOf(t).shutdown_request
    /\ listeners' = [listeners EXCEPT ![server_threads[t].httpd] =
                        [@ EXCEPT !.shutdown_request = FALSE, !.is_shut_down = TRUE]]
    /\ server_threads' = [server_threads EXCEPT ![t].pc = "served"]
    /\ UNCHANGED <<_server, stop_call, connections>>
    /\ LifeUnchanged

\* the with statement of line 301 ends: server_close(); requests still waiting
\* on the socket are refused; start_server returns and the thread ends
CloseListener(t) ==
    /\ server_threads[t].pc = "served"
    /\ listeners' = [listeners EXCEPT ![server_threads[t].httpd].open = FALSE]
    /\ connections' = [c \in DOMAIN connections |->
                          IF connections[c] = "pending" THEN "refused" ELSE connections[c]]
    /\ server_threads' = [server_threads EXCEPT ![t].pc = "done"]
    /\ UNCHANGED <<_server, stop_call>>
    /\ LifeUnchanged

\* a client sends a request to the port
Connect ==
    /\ PortInUse
    /\ Len(connections) < MaxConnections
    /\ connections' = Append(connections, "pending")
    /\ UNCHANGED <<_server, listeners, server_threads, stop_call>>
    /\ LifeUnchanged

\* line 314: stop_server tests GraphServer._server
StopServer ==
    /\ stop_call.pc = "idle"
    /\ stop_call.stops < MaxStops
    /\ stop_call' = IF _server = 0
                    THEN [stop_call EXCEPT !.found = 0, !.stops = @ + 1,
                                           !.threads_seen = Len(server_threads)]
                    ELSE [stop_call EXCEPT !.pc = "shutdown", !.found = 0,
                                           !.threads_seen = Len(server_threads)]
    /\ UNCHANGED <<_server, listeners, server_threads, connections>>
    /\ LifeUnchanged

\* line 315: GraphServer._server is read again; shutdown() sets
\* __shutdown_request
Shutdown ==
    /\ stop_call.pc = "shutdown"
    /\ listeners' = [listeners EXCEPT ![_server].shutdown_request = TRUE]
    /\ stop_call' = [stop_call EXCEPT !.pc = "wait", !.found = _server]
    /\ UNCHANGED <<_server, server_threads, connections>>
    /\ LifeUnchanged

\* line 315: shutdown() has waited for the event; line 316; stop_server returns
StopReturns ==
    /\ stop_call.pc = "wait"
    /\ shutdown_returns(listeners[stop_call.found])
    /\ stop_call' = [stop_call EXCEPT !.pc = "idle", !.stops = @ + 1]
    /\ UNCHANGED <<_server, listeners, server_threads, connections>>
    /\ LifeUnchanged

ThreadStep(t) ==
    \/ Construct(t)
    \/ Publish(t)
    \/ ServeForever(t)
    \/ HandleRequest(t)
    \/ LeaveLoop(t)
    \/ CloseListener(t)

LifeNext ==
    \/ InitServer
    \/ Connect
    \/ StopServer
    \/ Shutdown
    \/ StopReturns
    \/ \E t \in ServerThreads : ThreadStep(t)
    \/ \E t \in ServerThreads : FinishRequest(t)

SpecLife == LifeInit /\ [][LifeNext]_vars

\* every thread keeps running and the caller of stop_server keeps running;
\* every handler returns
SpecLifeFair ==
    /\ SpecLife
    /\ \A t \in 1..MaxStarts : WF_vars(t \in ServerThreads /\ ThreadStep(t))
    /\ \A t \in 1..MaxStarts : WF_vars(t \in ServerThreads /\ FinishRequest(t))
    /\ WF_vars(Shutdown) /\ WF_vars(StopReturns)

\* every thread keeps running, but a handler may take for ever (a query that
\* runs long)
SpecLifeBusy ==
    /\ SpecLife
    /\ \A t \in 1..MaxStarts : WF_vars(t \in ServerThreads /\ ThreadStep(t))
    /\ WF_vars(Shutdown) /\ WF_vars(StopReturns)

-----------------------------------------------------------------------------
(* Claims about the life cycle of the server                                *)

StopInProgress == stop_call.pc # "idle"

\* the last stop_server call returned after shutting down the listener found
StoppedListener == stop_call.pc = "idle" /\ stop_call.found # 0

\* C21: stop_server is safe in every state of the server: before any start,
\* after a start, and again after an earlier stop, every call returns (it
\* neither raises nor blocks for ever), and after a stop that found a listener
\* no thread is serving on that listener any more.
C21_StopIsSafe ==
    /\ [](StoppedListener =>
            \A t \in ServerThreads :
               server_threads[t].httpd = stop_call.found =>
                  server_threads[t].pc \in {"served", "done"})
    /\ StopInProgress ~> ~StopInProgress

\* a second stop_server found the listener of the earlier stop, already closed,
\* and returned
C21_Witness ==
    /\ StoppedListener
    /\ stop_call.stops = 2
    /\ ~listeners[stop_call.found].open

\* stop_server was called after the init that started thread t, and returned
StoppedAfterInit(t) ==
    /\ t \in ServerThreads
    /\ stop_call.pc = "idle"
    /\ stop_call.stops > 0
    /\ stop_call.threads_seen >= t

ThreadEnded(t) == t \in ServerThreads /\ server_threads[t].pc \in {"done", "raised"}

\* C26: after init() a following stop_server() makes the server thread end
\* eventually (joining it returns), in every interleaving of the thread and
\* the caller, also when stop_server runs before the thread has stored its
\* listener in GraphServer._server and when _server still holds the listener
\* of an earlier start and stop.
C26_StopEndsThread ==
    \A t \in 1..MaxStarts : StoppedAfterInit(t) ~> ThreadEnded(t)

\* request c waits on the socket while the handler of another request runs
WaitsBehindHandler(c) ==
    /\ c \in DOMAIN connections
    /\ connections[c] = "pending"
    /\ \E other \in DOMAIN connections : connections[other] = "handling"

\* C23: the server handles requests concurrently: a request that arrives while
\* another one is still being handled is taken up by a worker of its own,
\* without waiting for the earlier request to finish, however long that takes.
C23_OwnWorker ==
    \A c \in 1..MaxConnections :
        WaitsBehindHandler(c) ~> (c \in DOMAIN connections /\ connections[c] # "pending")

-----------------------------------------------------------------------------
(* get_database_instance called from several threads (the server thread and *)
(* the notebook's thread both call it); each line of it is one step         *)

MaxCalls == 2

CacheTriples ==
    {<<JStr("a_b"), JStr("c"), JStr("d")>>, <<JStr("a"), JStr("b_c"), JStr("d")>>,
     <<JStr("p"), JStr("i"), JStr("d")>>}

GdiCalls == DOMAIN gdi_calls

\* database_instances.get(key)
CacheGet(cache, key) ==
    IF \E entry \in cache : entry[1] = key
    THEN (CHOOSE entry \in cache : entry[1] = key)[2]
    ELSE None

\* database_instances[key] = adapter
CachePut(cache, key, adapter) ==
    {entry \in cache : entry[1] # key} \cup {<<key, adapter>>}

CacheInit ==
    /\ database_instances = {} /\ cloud_made = 0 /\ gdi_calls = <<>>
    /\ backend_log = <<>> /\ http_request = None /\ http_reply = None
    /\ srv_pc = "idle" /\ srv_n = 0 /\ xq_calls = <<>>
    /\ DbIdle /\ LifeIdle /\ ConvIdle /\ SmIdle /\ ValIdle

CacheUnchanged ==
    UNCHANGED <<backend_log, http_request, http_reply, srv_pc, srv_n, xq_calls, dbVars,
                lifeVars, convVars, smVars, valVars>>

\* exec_env.py lines 27-29: a thread calls get_database_instance; a mock
\* request returns a new mock adapter at once
CallGetDatabaseInstance ==
    /\ Len(gdi_calls) < MaxCalls
    /\ \E triple \in CacheTriples, mock \in BOOLEAN :
          gdi_calls' = Append(gdi_calls,
                              [project |-> triple[1], instance |-> triple[2],
                               database |-> triple[3], mock |-> mock,
                               pc |-> IF mock THEN "returned" ELSE "get",
                               db |-> IF mock THEN MockSpannerDatabase ELSE None])
    /\ UNCHANGED <<database_instances, cloud_made>>
    /\ CacheUnchanged

\* lines 31-36: key, db = database_instances.get(key), if not db
GetCached(i) ==
    /\ gdi_calls[i].pc = "get"
    /\ LET found == CacheGet(database_instances,
                             cache_key(gdi_calls[i].project, gdi_calls[i].instance,
                                       gdi_calls[i].database))
       IN  gdi_calls' = [gdi_calls EXCEPT ![i].db = found,
                                          ![i].pc = IF found = None THEN "construct"
                                                    ELSE "returned"]
    /\ UNCHANGED <<database_instances, cloud_made>>
    /\ CacheUnchanged

\* line 37: db = CloudSpannerDatabase(project, instance, database)
ConstructAdapter(i) ==
    /\ gdi_calls[i].pc = "construct"
    /\ cloud_made' = cloud_made + 1
    /\ gdi_calls' = [gdi_calls EXCEPT
                        ![i].db = CloudSpannerDatabase(gdi_calls[i].project,
                                                       gdi_calls[i].instance,
                                                       gdi_calls[i].database, cloud_made + 1),
                        ![i].pc = "insert"]
    /\ UNCHANGED database_instances
    /\ CacheUnchanged

\* lines 38-40: database_instances[key] = db; return db
InsertAdapter(i) ==
    /\ gdi_calls[i].pc = "insert"
    /\ database_instances' =
          CachePut(database_instances,
                   cache_key(gdi_calls[i].project, gdi_calls[i].instance,
                             gdi_calls[i].database),
                   gdi_calls[i].db)
    /\ gdi_calls' = [gdi_calls EXCEPT ![i].pc = "returned"]
    /\ UNCHANGED cloud_made
    /\ CacheUnchanged

CacheNext ==
    \/ CallGetDatabaseInstance
    \/ \E i \in GdiCalls : GetCached(i)
    \/ \E i \in GdiCalls : ConstructAdapter(i)
    \/ \E i \in GdiCalls : InsertAdapter(i)

SpecCache == CacheInit /\ [][CacheNext]_vars

-----------------------------------------------------------------------------
(* Claims about the instance cache under concurrent use                     *)

ReturnedCloud(i) == i \in GdiCalls /\ gdi_calls[i].pc = "returned" /\ ~gdi_calls[i].mock
SameTriple(i, j) ==
    /\ gdi_calls[i].project = gdi_calls[j].project
    /\ gdi_calls[i].instance = gdi_calls[j].instance
    /\ gdi_calls[i].database = gdi_calls[j].database

\* C22: under concurrent first use of one (project, instance, database) triple
\* with mock = false, in every interleaving of the calls one adapter is
\* constructed for the triple and every caller receives that same instance.
C22_OneAdapterUnderConcurrency ==
    \A i, j \in GdiCalls :
        (ReturnedCloud(i) /\ ReturnedCloud(j) /\ SameTriple(i, j))
            => gdi_calls[i].db = gdi_calls[j].db

\* C28: the cache key is injective: non-mock calls for two triples that differ
\* in a component never return the same adapter, and the adapter returned for
\* a triple was constructed with that project, instance and database, also
\* when components contain the character "_".
C28_KeyInjective ==
    \A i, j \in GdiCalls :
        (ReturnedCloud(i) /\ ReturnedCloud(j)) =>
            /\ gdi_calls[i].db.project = gdi_calls[i].project
            /\ gdi_calls[i].db.instance = gdi_calls[i].instance
            /\ gdi_calls[i].db.database = gdi_calls[i].database
            /\ ~SameTriple(i, j) => gdi_calls[i].db # gdi_calls[j].db

-----------------------------------------------------------------------------
(* CloudSpannerDatabase.execute_query called from several threads on one    *)
(* cached adapter; self.schema_json is an attribute of the shared object    *)

MaxQueryCalls == 2

AdapterBackends ==
    {Backend(TRUE, CatalogG, TRUE, SqlNode), Backend(TRUE, Catalog0, TRUE, SqlNode),
     Backend(TRUE, CatalogG, TRUE, SqlFails), Backend(TRUE, CatalogFails, TRUE, SqlEmpty)}

XqCalls == DOMAIN xq_calls

AdapterInit ==
    /\ db = CloudSpannerDatabase(JStr("p"), JStr("i"), JStr("d"), 1)
    /\ db_call = None /\ db_out = None
    /\ xq_calls = <<>> /\ gdi_calls = <<>>
    /\ SrvIdle /\ LifeIdle /\ ConvIdle /\ SmIdle /\ ValIdle

AdapterUnchanged ==
    UNCHANGED <<db_call, db_out, gdi_calls, srvVars, lifeVars, convVars, smVars, valVars>>

\* a thread calls execute_query(query, is_test_query=...) on the adapter
CallExecuteQuery ==
    /\ Len(xq_calls) < MaxQueryCalls
    /\ \E query \in {GraphQuery, SelectQuery}, is_test_query \in BOOLEAN,
          backend \in AdapterBackends :
          xq_calls' = Append(xq_calls,
                             [query |-> query, is_test_query |-> is_test_query,
                              backend |-> backend, pc |-> "reset", out |-> None])
    /\ UNCHANGED db
    /\ AdapterUnchanged

\* line 106: self.schema_json = None
ResetSchema(i) ==
    /\ xq_calls[i].pc = "reset"
    /\ db' = [db EXCEPT !.schema_json = None]
    /\ xq_calls' = [xq_calls EXCEPT ![i].pc = "resolve"]
    /\ AdapterUnchanged

\* lines 107-108: self.schema_json = self._get_schema_for_graph(query)
ResolveSchema(i) ==
    /\ xq_calls[i].pc = "resolve"
    /\ IF xq_calls[i].is_test_query
       THEN /\ xq_calls' = [xq_calls EXCEPT ![i].pc = "execute"]
            /\ UNCHANGED db
       ELSE \E resolved \in {_get_schema_for_graph(xq_calls[i].query, xq_calls[i].backend)} :
               IF resolved.raised
               THEN /\ xq_calls' = [xq_calls EXCEPT ![i].pc = "raised",
                                                    ![i].out = DbRaised(db, resolved.exc)]
                    /\ UNCHANGED db
               ELSE /\ db' = [db EXCEPT !.schema_json = resolved.value]
                    /\ xq_calls' = [xq_calls EXCEPT ![i].pc = "execute"]
    /\ AdapterUnchanged

\* lines 110-153: the query runs and the result is built with self.schema_json
ReturnResult(i) ==
    /\ xq_calls[i].pc = "execute"
    /\ \E out \in {execute_sql_and_convert(db, xq_calls[i].query, xq_calls[i].backend)} :
          xq_calls' = [xq_calls EXCEPT ![i].pc = IF out.raised THEN "raised" ELSE "returned",
                                       ![i].out = out]
    /\ UNCHANGED db
    /\ AdapterUnchanged

AdapterNext ==
    \/ CallExecuteQuery
    \/ \E i \in XqCalls : ResetSchema(i)
    \/ \E i \in XqCalls : ResolveSchema(i)
    \/ \E i \in XqCalls : ReturnResult(i)

SpecAdapter == AdapterInit /\ [][AdapterNext]_vars

\* the schema document resolved for the query of call i
OwnSchema(i) ==
    IF xq_calls[i].is_test_query THEN None
    ELSE _get_schema_for_graph(xq_calls[i].query, xq_calls[i].backend).value

\* C27: the schema document in the result of each execute_query call is the
\* one resolved for that call's own query (absent for a test query, for a
\* query that is not a graph query and when the catalog has no match), in
\* every interleaving of calls on the same adapter.
C27_SchemaOfOwnCall ==
    \A i \in XqCalls :
        xq_calls[i].pc = "returned" => xq_calls[i].out.result.schema_json = OwnSchema(i)

-----------------------------------------------------------------------------
(* Claims about expandNode requests that fail validation                    *)

\* the two inputs of the expandNode call are dicts and validation rejects them
ValidationFails ==
    /\ isinstance(ExpandRequestDict, "dict") /\ isinstance(ExpandParamsDict, "dict")
    /\ ~validate_node_expansion_request(ExpandMerged).ok

\* C24: when an expandNode request fails validation, no adapter is looked up
\* or created in the instance cache and no query is issued to a backend: the
\* cache is as it was, and the endpoint answers {error: message}, without a
\* response key, with HTTP status 200.
C24_InvalidRequestTouchesNothing ==
    (srv_pc = "replied" /\ ValidationFails) =>
        /\ database_instances = {} /\ cloud_made = 0
        /\ backend_log = <<>>
        /\ http_reply.kind = "json" /\ http_reply.status = 200
        /\ Keys(http_reply.body) = {"error"}
        /\ Get(http_reply.body, "error") = validate_node_expansion_request(ExpandMerged)

\* a request with a property constraint that validation rejects was answered
C24_Witness ==
    /\ srv_pc = "replied" /\ ValidationFails
    /\ ExpandProps # <<>>
    /\ ~validate_property(0, ExpandProps[1]).ok
    /\ Keys(http_reply.body) = {"error"}

\* validation accepted the expandNode request and execute_query was called
ExpansionExecuted ==
    /\ srv_pc = "replied"
    /\ isinstance(ExpandRequestDict, "dict") /\ isinstance(ExpandParamsDict, "dict")
    /\ ~ExpandCall.raised

\* C29: when execute_node_expansion passes validation and reaches query
\* execution, the project, instance and database handed to execute_query and
\* the graph name, uid and node labels put into the query are the non-null
\* values the required-field check examined.
C29_ValidatedValuesUsed ==
    ExpansionExecuted =>
        /\ ExpandCall.project = Get(ExpandMerged, "project")
        /\ ExpandCall.instance = Get(ExpandMerged, "instance")
        /\ ExpandCall.database = Get(ExpandMerged, "database")
        /\ ExpandCall.query.graph = format(Get(ExpandMerged, "graph"))
        /\ ExpandCall.query.uid = format(Get(ExpandMerged, "uid"))
        /\ ExpandCall.query.node_label_str = node_label_str(Get(ExpandMerged, "node_labels"))

-----------------------------------------------------------------------------
(* Claims about the dynamic-label rule of the Schema Manager                *)

\* a call on a node with labels and properties, the dynamic-label flag set
C25Case ==
    /\ sm_call # None
    /\ isinstance(sm_call.node, "Node")
    /\ isinstance(sm_call.node.labels, "list") /\ len(sm_call.node.labels) >= 1
    /\ isinstance(sm_call.node.properties, "dict") /\ len(sm_call.node.properties) >= 1
    /\ schema_manager.dynamic_node

\* the positions of the tables whose labelNames are a subset of the node's labels
SubsetTables ==
    {i \in DOMAIN NodeTables(schema_manager.schema_dict) :
        Range(GetOr(NodeTables(schema_manager.schema_dict)[i], "labelNames",
                    JList(<<>>)).items)
            \subseteq Range(sm_call.node.labels.items)}

\* C25: with the dynamic-label flag set, get_key_property_names on a node with
\* labels and properties returns the keyColumns of the first table in schema
\* order whose labelNames are a subset of the node's labels, whether or not the
\* key columns are among the node's properties and even if a later table
\* matches the labels exactly; it returns [] when no table's labels are a
\* subset (and then no table matches exactly either).
C25_FirstSubsetTable ==
    C25Case =>
        sm_call.outcome =
            Returned(IF SubsetTables = {} THEN JList(<<>>)
                     ELSE GetOr(NodeTables(schema_manager.schema_dict)[
                                    CHOOSE i \in SubsetTables :
                                        \A j \in SubsetTables : i <= j],
                                "keyColumns", JList(<<>>)))

\* a node labelled Person with a name: the first table has no labels and the
\* key column "key", which the node lacks; the second matches the node exactly
C25_Witness ==
    /\ C25Case
    /\ sm_call.node.labels = JList(<<JStr("Person")>>)
    /\ sm_call.node.properties = JDict({<<"name", JStr("John Doe")>>})
    /\ Len(NodeTables(schema_manager.schema_dict)) = 2
    /\ GetOr(NodeTables(schema_manager.schema_dict)[1], "labelNames", None) = JList(<<>>)
    /\ NodeTables(schema_manager.schema_dict)[2]
          = DynamicNodeTable("DynPerson", <<JStr("Person")>>, <<JStr("name")>>, "label_col")
    /\ sm_call.outcome = Returned(JList(<<JStr("key")>>))

-----------------------------------------------------------------------------
(* Completeness and soundness of get_nodes_edges                            *)

InputEdgeIds ==
    {Get(c, "identifier") : c \in {x \in Range(Candidates(data, fields)) : WellFormedEdge(x)}}

EndpointIds ==
    {edges[i].source : i \in DOMAIN edges} \cup {edges[i].destination : i \in DOMAIN edges}

\* C30: the identifiers of the returned edges are exactly those of the
\* shape-valid edge candidates in the JSON and ARRAY columns; the identifiers
\* of the returned nodes are exactly those of the shape-valid node candidates
\* together with the sources and destinations of the kept edges.  Every kept
\* input node has the key_property_names the Schema Manager gives for it, and
\* every placeholder has none.
C30_CompleteAndSound ==
    conv_pc = "done" =>
        /\ IdSet(edges) = InputEdgeIds
        /\ IdSet(nodes) = InputNodeIds \cup EndpointIds
        /\ \A i \in DOMAIN nodes :
              nodes[i].key_property_names =
                 IF nodes[i].intermediate THEN JList(<<>>)
                 ELSE get_key_property_names(
                          SchemaManager(schema_json),
                          [nodes[i] EXCEPT !.key_property_names = JList(<<>>)]).value

\* a node whose key property names the schema resolves, an edge, and a
\* placeholder for an endpoint that is no input node
C30_Witness ==
    /\ conv_pc = "done"
    /\ \E i \in DOMAIN nodes :
          ~nodes[i].intermediate /\ nodes[i].key_property_names # JList(<<>>)
    /\ \E i \in DOMAIN nodes : nodes[i].intermediate
    /\ edges # <<>>

====
